---- MODULE Spec2Model ----
(***************************************************************************)
(* Passwordless authentication backend of onboarding-reboot-next:         *)
(* magic links, refresh sessions, the auth middleware chain and the       *)
(* users service, over the Prisma store (users, magic_links,              *)
(* auth_sessions).  Every request is a process; a handler is cut into one *)
(* step per awaited store access, so that concurrent requests interleave  *)
(* exactly where the Node event loop lets them.  The browser side, the    *)
(* API client and the auth store of the frontend, is modelled next to it.  *)
(***************************************************************************)
EXTENDS Integers, Sequences, FiniteSets, TLC

VARIABLES
    now,           \* the clock read by new Date() / Date.now(), in minutes
    users,         \* rows of table users
    magicLinks,    \* rows of table magic_links
    authSessions,  \* rows of table auth_sessions
    nextToken,     \* next value drawn by randomBytes(32)
    nextUserId,    \* next primary key of table users
    pc,            \* per request process: the await it is suspended at
    loc,           \* per request process: the handler's local variables
    resp,          \* the latest event: a call's result, or a move of the clock
    origin,        \* history: who each issued secret was issued to, from what,
                   \*          and whether a logout has revoked it
    successes,     \* history: successful returns of redeem, per magic-link secret
    sequential,    \* TRUE when a single client runs every call to completion
    refreshPromise, \* browser: AuthApiClient.refreshPromise
    promises,      \* browser: the state of each promise performRefresh returned
    fetchers,      \* browser: per fetchWithAuth call, where it stands
    authState,     \* browser: the state of useAuthStore
    storeCalls,    \* browser: per call of a store action, where it stands
    serverSession, \* whether the session of the browser's cookie is stored
    loggedOut      \* history: a logout has completed and no call started
                   \*          after it has succeeded since

backend == <<now, users, magicLinks, authSessions, nextToken, nextUserId,
             pc, loc, resp, origin, successes, sequential>>

frontend == <<refreshPromise, promises, fetchers, authState, storeCalls,
              serverSession, loggedOut>>

vars == <<backend, frontend>>

store == <<users, magicLinks, authSessions>>

----------------------------------------------------------------------------
(* Bounds of the model *)

MaxTokens == 3        \* secrets drawn by randomBytes in a run
MaxTime == 44700      \* the clock stops here (past every expiry of a run)
MaxDrift == 1         \* principals whose rows may differ from the seeded ones
MaxNewUsers == 1      \* principals created in a run

Procs == {"p1", "p2"}
Tokens == 1..MaxTokens

----------------------------------------------------------------------------
(* Program constants: the lifetimes, in the units the source writes them *)

MagicLinkHours == 24
SessionDays == 30
MinutesPerHour == 60
HoursPerDay == 24

MagicLinkTtl == MagicLinkHours * MinutesPerHour
SessionTtl == SessionDays * HoursPerDay * MinutesPerHour

----------------------------------------------------------------------------
(* Values *)

NoTime == -1
NoToken == 0
NoUserId == 0
NoTeam == "none"
NoCompany == "none"

ADMIN_RH == "ADMIN_RH"
MANAGER == "MANAGER"
COLLABORATEUR == "COLLABORATEUR"
Role == {ADMIN_RH, MANAGER, COLLABORATEUR}

Companies == {"acme", "globex"}
UnknownCompany == "initech"
Teams == {"t1", "t2"}
Emails == {"alice@acme.com", "bob@acme.com", "carol@acme.com", "dave@globex.com"}
NewEmail == "erin@acme.com"
Absent == "absent"

\* The principals the database is seeded with.
SeedUsers ==
    { [id |-> 1, email |-> "alice@acme.com", role |-> COLLABORATEUR,
       companyId |-> "acme", teamId |-> NoTeam],
      [id |-> 2, email |-> "bob@acme.com", role |-> MANAGER,
       companyId |-> "acme", teamId |-> "t1"],
      [id |-> 3, email |-> "carol@acme.com", role |-> ADMIN_RH,
       companyId |-> "acme", teamId |-> NoTeam],
      [id |-> 4, email |-> "dave@globex.com", role |-> MANAGER,
       companyId |-> "globex", teamId |-> "t2"] }

\* The two of them registered in the runs of the link and session lifecycle;
\* the other two e-mail addresses then belong to nobody.
LifecycleUsers == {u \in SeedUsers : u.id \in {1, 4}}

SeedIds == {u.id : u \in SeedUsers}

\* The refresh secret a seeded principal holds where a run starts logged in.
SeedSecret(id) == MaxTokens + id
AllTokens == Tokens \cup {SeedSecret(id) : id \in SeedIds}
UserIds == 1..(Cardinality(SeedUsers) + MaxNewUsers)

\* createHash('sha256').update(token).digest('hex'): deterministic, injective
\* on the secrets drawn, and never equal to the secret itself.
Hash(token) == <<"sha256", token>>

NoOrigin == [kind |-> "none", userId |-> NoUserId, link |-> NoToken,
             revoked |-> FALSE]
IdleLoc == [op |-> "none"]
NoResp == [op |-> "none", code |-> "none"]

----------------------------------------------------------------------------
(* The browser: AuthApiClient and useAuthStore *)

MaxRefreshes == 3     \* calls of performRefresh in a run

Promises == 1..MaxRefreshes
NoPromise == 0
Fetchers == {"f1", "f2", "f3"}
StoreCallers == {"s1", "s2"}

IdleFetcher == [at |-> "idle", promise |-> NoPromise, result |-> "none"]
IdleStoreCall == [op |-> "none", at |-> "idle", ok |-> FALSE, stale |-> FALSE]

\* user: null, and the user a response carries.
NoUser == "null"
SomeUser == "user"
\* accessToken: null, and the token a response carries.
NoAccessToken == "null"
SomeAccessToken == "jwt"

\* The initial state of the store, which clearAuth and logout set again.
SignedOut == [isAuthenticated |-> FALSE, isLoading |-> FALSE, user |-> NoUser,
              accessToken |-> NoAccessToken]

FrontendInit ==
    /\ refreshPromise = NoPromise
    /\ promises = [n \in Promises |-> "unborn"]
    /\ fetchers = [f \in Fetchers |-> IdleFetcher]
    /\ authState = SignedOut
    /\ storeCalls = [c \in StoreCallers |-> IdleStoreCall]
    /\ serverSession = FALSE
    /\ loggedOut = FALSE

----------------------------------------------------------------------------
(* The store: lookups by unique key, and the foreign keys *)

UserById(id) == {u \in users : u.id = id}
\* (mutant) the lookup by e-mail forgets its where clause
UserByEmail_AnyRow(email) == users

UserByEmail(email) == {u \in users : u.email = email}
LinkByHash(h) == {l \in magicLinks : l.tokenHash = h}

\* (mutant) the lookup forgets its where clause
SessionByHash_AnyRow(h) == authSessions
SessionByHash(h) == {s \in authSessions : s.tokenHash = h}
The(S) == CHOOSE x \in S : TRUE

\* UserSession: the minimal context validateSession returns
Context(u) == [id |-> u.id, role |-> u.role, companyId |-> u.companyId,
               teamId |-> u.teamId]

----------------------------------------------------------------------------
(* Scheduling and bookkeeping *)

\* In a sequential run one client issues the calls, each to completion.
MayAct(p) == sequential => p = "p1"
Quiescent == sequential => \A p \in Procs : pc[p] = "idle"

\* The call of process p returns (or throws) r.
Return(p, r) ==
    /\ pc' = [pc EXCEPT ![p] = "idle"]
    /\ loc' = [loc EXCEPT ![p] = IdleLoc]
    /\ resp' = r
    /\ UNCHANGED frontend

\* The call of process p suspends at its next await.
Suspend(p, at, l) ==
    /\ pc' = [pc EXCEPT ![p] = at]
    /\ loc' = [loc EXCEPT ![p] = l]
    /\ UNCHANGED resp
    /\ UNCHANGED frontend

----------------------------------------------------------------------------
(* AuthService.generateMagicLink *)

\* (mutant) the invalidation removes the used links instead of the unused ones
UnusedLinksOf_UsedOnes(userId) ==
    {l \in magicLinks : l.userId = userId /\ l.usedAt # NoTime}

\* The rows deleteMany({userId, usedAt: null}) removes.
UnusedLinksOf(userId) ==
    {l \in magicLinks : l.userId = userId /\ l.usedAt = NoTime}

generateMagicLink_findUser(p, email) ==
    /\ pc[p] = "idle"
    /\ MayAct(p)
    /\ IF UserByEmail(email) = {}
       THEN /\ Return(p, [op |-> "generateMagicLink", code |-> "USER_NOT_FOUND"])
            /\ UNCHANGED nextToken
       ELSE /\ nextToken <= MaxTokens
            /\ nextToken' = nextToken + 1
            /\ Suspend(p, "generateMagicLink_deleteMany",
                       [op |-> "generateMagicLink", email |-> email,
                        userId |-> The(UserByEmail(email)).id,
                        token |-> nextToken,
                        expiresAt |-> now + MagicLinkTtl])
    /\ UNCHANGED <<now, store, nextUserId, origin, successes, sequential>>

generateMagicLink_deleteMany(p) ==
    /\ pc[p] = "generateMagicLink_deleteMany"
    /\ magicLinks' = magicLinks \ UnusedLinksOf(loc[p].userId)
    /\ Suspend(p, "generateMagicLink_create", loc[p])
    /\ UNCHANGED <<now, users, authSessions, nextToken, nextUserId, origin,
                   successes, sequential>>

generateMagicLink_create(p) ==
    /\ pc[p] = "generateMagicLink_create"
    /\ IF UserById(loc[p].userId) = {}
       THEN \* foreign key magic_links_user_id_fkey: the insert throws
            /\ Return(p, [op |-> "generateMagicLink",
                          code |-> "MAGIC_LINK_GENERATION_FAILED"])
            /\ UNCHANGED <<magicLinks, origin>>
       ELSE /\ magicLinks' = magicLinks \cup
                  {[id |-> loc[p].token, userId |-> loc[p].userId,
                    tokenHash |-> Hash(loc[p].token), usedAt |-> NoTime,
                    expiresAt |-> loc[p].expiresAt]}
            /\ origin' = [origin EXCEPT ![loc[p].token] =
                  [kind |-> "link", userId |-> loc[p].userId, link |-> NoToken,
                   revoked |-> FALSE]]
            /\ Return(p, [op |-> "generateMagicLink", code |-> "OK",
                          userId |-> loc[p].userId, token |-> loc[p].token,
                          expiresAt |-> loc[p].expiresAt])
    /\ UNCHANGED <<now, users, authSessions, nextToken, nextUserId, successes,
                   sequential>>

----------------------------------------------------------------------------
(* AuthService.validateMagicLinkAndCreateSession *)

\* magicLink.expiresAt < new Date()
LinkExpired(link, t) == link.expiresAt < t

\* if (magicLink.usedAt): a Date object is truthy whatever its value
LinkUsed(link) == link.usedAt # NoTime

\* The payload JwtUtils.generateAccessToken signs, with its issue time.
AccessToken(u, t) == [userId |-> u.id, role |-> u.role, companyId |-> u.companyId,
                      teamId |-> u.teamId, iat |-> t]

validateMagicLink_findUnique(p, token) ==
    /\ pc[p] = "idle"
    /\ MayAct(p)
    /\ LET found == LinkByHash(Hash(token))
           fail(code) == Return(p, [op |-> "validateMagicLink", code |-> code,
                                    token |-> token])
       IN  IF found = {} THEN fail("INVALID_TOKEN")
           ELSE IF LinkExpired(The(found), now) THEN fail("EXPIRED_TOKEN")
           ELSE IF LinkUsed(The(found)) THEN fail("TOKEN_ALREADY_USED")
           ELSE \* a redeem starts only while a secret is left for its session
                /\ nextToken <= MaxTokens
                /\ Suspend(p, "validateMagicLink_update",
                           [op |-> "validateMagicLink", token |-> token,
                            link |-> The(found),
                            user |-> The(UserById(The(found).userId))])
    /\ UNCHANGED <<now, store, nextToken, nextUserId, origin, successes,
                   sequential>>

\* (mutant) the update leaves usedAt null
MarkUsed_Forgotten(linkId, t) == magicLinks

\* prisma.magicLink.update({where: {id}, data: {usedAt: new Date()}})
MarkUsed(linkId, t) ==
    {IF l.id = linkId THEN [l EXCEPT !.usedAt = t] ELSE l : l \in magicLinks}

validateMagicLink_update(p) ==
    /\ pc[p] = "validateMagicLink_update"
    /\ IF \A l \in magicLinks : l.id # loc[p].link.id
       THEN \* the row is gone: update throws P2025, rethrown as a 500
            /\ Return(p, [op |-> "validateMagicLink",
                          code |-> "MAGIC_LINK_VALIDATION_FAILED",
                          token |-> loc[p].token])
            /\ UNCHANGED <<magicLinks, nextToken>>
       ELSE /\ nextToken <= MaxTokens
            /\ magicLinks' = MarkUsed(loc[p].link.id, now)
            /\ nextToken' = nextToken + 1
            /\ Suspend(p, "validateMagicLink_create",
                       [op |-> "validateMagicLink", token |-> loc[p].token,
                        link |-> loc[p].link, user |-> loc[p].user,
                        refreshToken |-> nextToken,
                        refreshExpiresAt |-> now + SessionTtl])
    /\ UNCHANGED <<now, users, authSessions, nextUserId, origin, successes,
                   sequential>>

\* String(undefined), the text res.cookie stores for a value that is undefined;
\* it is the secret of no session.
UndefinedText == -2

\* res.cookie("session_token", result.sessionToken, cookieOptions)
verifyMagicLink_cookie(result) ==
    IF "sessionToken" \in DOMAIN result THEN result.sessionToken
    ELSE UndefinedText

\* (mutant) the session is stored under the digest of the secret's bytes,
\* not of its hexadecimal text
NewSession_DigestOfBytes(l) ==
    [id |-> l.refreshToken, userId |-> l.user.id,
     tokenHash |-> <<"sha256-of-bytes", l.refreshToken>>,
     expiresAt |-> l.refreshExpiresAt]

\* The row prisma.authSession.create inserts.
NewSession(l) ==
    [id |-> l.refreshToken, userId |-> l.user.id,
     tokenHash |-> Hash(l.refreshToken), expiresAt |-> l.refreshExpiresAt]

validateMagicLink_create(p) ==
    /\ pc[p] = "validateMagicLink_create"
    /\ IF UserById(loc[p].user.id) = {}
       THEN \* foreign key auth_sessions_user_id_fkey: the insert throws
            /\ Return(p, [op |-> "validateMagicLink",
                          code |-> "MAGIC_LINK_VALIDATION_FAILED",
                          token |-> loc[p].token])
            /\ UNCHANGED <<authSessions, origin, successes>>
       ELSE /\ authSessions' = authSessions \cup {NewSession(loc[p])}
            /\ origin' = [origin EXCEPT ![loc[p].refreshToken] =
                  [kind |-> "refresh", userId |-> loc[p].link.userId,
                   link |-> loc[p].token, revoked |-> FALSE,
                   ctx |-> Context(loc[p].user),
                   access |-> AccessToken(loc[p].user, now)]]
            /\ successes' = [successes EXCEPT ![loc[p].token] = @ + 1]
            /\ LET result == [user |-> [id |-> loc[p].user.id,
                                         email |-> loc[p].user.email,
                                         role |-> loc[p].user.role],
                               accessToken |-> AccessToken(loc[p].user, now),
                               refreshToken |-> loc[p].refreshToken,
                               refreshExpiresAt |-> loc[p].refreshExpiresAt]
               IN  Return(p, [op |-> "validateMagicLink", code |-> "OK",
                              token |-> loc[p].token,
                              cookie |-> verifyMagicLink_cookie(result)]
                             @@ result)
    /\ UNCHANGED <<now, users, magicLinks, nextToken, nextUserId, sequential>>

----------------------------------------------------------------------------
(* AuthService.validateSession *)

\* (mutant) no session is ever found expired
SessionExpired_Never(s, t) == FALSE

\* session.expiresAt < new Date()
SessionExpired(s, t) == s.expiresAt < t

validateSession_findUnique(p, token) ==
    /\ pc[p] = "idle"
    /\ MayAct(p)
    /\ LET found == SessionByHash(Hash(token))
       IN  IF found = {}
           THEN Return(p, [op |-> "validateSession", code |-> "INVALID_SESSION",
                           token |-> token])
           ELSE IF SessionExpired(The(found), now)
           THEN Suspend(p, "validateSession_delete",
                        [op |-> "validateSession", token |-> token,
                         sessionId |-> The(found).id])
           ELSE Return(p, [op |-> "validateSession", code |-> "OK",
                           token |-> token,
                           user |-> Context(The(UserById(The(found).userId)))])
    /\ UNCHANGED <<now, store, nextToken, nextUserId, origin, successes,
                   sequential>>

validateSession_delete(p) ==
    /\ pc[p] = "validateSession_delete"
    /\ IF \A s \in authSessions : s.id # loc[p].sessionId
       THEN \* delete of a missing row throws P2025, rethrown as a 500
            /\ Return(p, [op |-> loc[p].op, code |-> "SESSION_VALIDATION_FAILED",
                          token |-> loc[p].token])
            /\ UNCHANGED authSessions
       ELSE /\ authSessions' = {s \in authSessions : s.id # loc[p].sessionId}
            /\ Return(p, [op |-> loc[p].op, code |-> "EXPIRED_SESSION",
                          token |-> loc[p].token])
    /\ UNCHANGED <<now, users, magicLinks, nextToken, nextUserId, origin,
                   successes, sequential>>

----------------------------------------------------------------------------
(* AuthService.refreshAccessToken *)

\* The user fields refreshAccessToken returns.
RefreshedUser(u) == [id |-> u.id, email |-> u.email, role |-> u.role]

refreshAccessToken_findUnique(p, refreshToken) ==
    /\ pc[p] = "idle"
    /\ MayAct(p)
    /\ LET found == SessionByHash(Hash(refreshToken))
           user == The(UserById(The(found).userId))
       IN  IF found = {}
           THEN Return(p, [op |-> "refreshAccessToken",
                           code |-> "INVALID_REFRESH_TOKEN",
                           token |-> refreshToken])
           ELSE IF SessionExpired(The(found), now)
           THEN Suspend(p, "refreshAccessToken_delete",
                        [op |-> "refreshAccessToken", token |-> refreshToken,
                         sessionId |-> The(found).id])
           ELSE Return(p, [op |-> "refreshAccessToken", code |-> "OK",
                           token |-> refreshToken,
                           user |-> RefreshedUser(user),
                           accessToken |-> AccessToken(user, now)])
    /\ UNCHANGED <<now, store, nextToken, nextUserId, origin, successes,
                   sequential>>

refreshAccessToken_delete(p) ==
    /\ pc[p] = "refreshAccessToken_delete"
    /\ IF \A s \in authSessions : s.id # loc[p].sessionId
       THEN \* delete of a missing row throws P2025, rethrown as a 500
            /\ Return(p, [op |-> loc[p].op, code |-> "TOKEN_REFRESH_FAILED",
                          token |-> loc[p].token])
            /\ UNCHANGED authSessions
       ELSE /\ authSessions' = {s \in authSessions : s.id # loc[p].sessionId}
            /\ Return(p, [op |-> loc[p].op, code |-> "EXPIRED_REFRESH_TOKEN",
                          token |-> loc[p].token])
    /\ UNCHANGED <<now, users, magicLinks, nextToken, nextUserId, origin,
                   successes, sequential>>

----------------------------------------------------------------------------
(* POST /api/auth/logout: AuthController.logout, AuthService.revokeSession *)

\* (mutant) the where clause of the delete matches no row
RevokedRows_NoMatch(cookie) == {}

\* The rows deleteMany({where: {tokenHash}}) removes; none without a cookie.
RevokedRows(cookie) ==
    IF cookie = NoToken THEN {} ELSE SessionByHash(Hash(cookie))

\* The route has no middleware: the controller revokes, clears the cookie and
\* answers 200.
logout(p, cookie) ==
    /\ pc[p] = "idle"
    /\ MayAct(p)
    /\ authSessions' = authSessions \ RevokedRows(cookie)
    /\ origin' = IF cookie # NoToken /\ origin[cookie].kind = "refresh"
                 THEN [origin EXCEPT ![cookie].revoked = TRUE]
                 ELSE origin
    /\ Return(p, [op |-> "logout", status |-> 200, code |-> "OK", by |-> cookie])
    /\ UNCHANGED <<now, users, magicLinks, nextToken, nextUserId, successes,
                   sequential>>

----------------------------------------------------------------------------
(* AuthService.cleanupExpiredTokens *)

\* (mutant) the sweep of the links without its second OR branch
SweptLinks_ExpiredOnly(t) == {l \in magicLinks : l.expiresAt < t}

SweptLinks(t) == {l \in magicLinks : l.expiresAt < t \/ l.usedAt # NoTime}
\* (mutant) the sweep leaves the sessions alone
SweptSessions_None(t) == {}

SweptSessions(t) == {s \in authSessions : s.expiresAt < t}

cleanupExpiredTokens(p) ==
    /\ pc[p] = "idle"
    /\ MayAct(p)
    /\ magicLinks' = magicLinks \ SweptLinks(now)
    /\ authSessions' = authSessions \ SweptSessions(now)
    /\ Return(p, [op |-> "cleanupExpiredTokens", code |-> "OK",
                  deletedMagicLinks |-> Cardinality(SweptLinks(now)),
                  deletedSessions |-> Cardinality(SweptSessions(now))])
    /\ UNCHANGED <<now, users, nextToken, nextUserId, origin, successes,
                   sequential>>

----------------------------------------------------------------------------
(* The clock.  Only the order of the clock and the stored expiry instants *)
(* is ever observed, so the clock moves to an expiry instant of some      *)
(* stored row or to the minute after it.                                  *)

Deadlines == {l.expiresAt : l \in magicLinks} \cup {s.expiresAt : s \in authSessions}
Instants == {d + k : d \in Deadlines, k \in {0, 1}}

Tick(t) ==
    /\ Quiescent
    /\ t > now
    /\ t <= MaxTime
    /\ now' = t
    /\ resp' = [op |-> "tick", code |-> "OK"]
    /\ UNCHANGED <<store, nextToken, nextUserId, pc, loc, origin, successes,
                   sequential>>
    /\ UNCHANGED frontend

----------------------------------------------------------------------------
(* Specifications *)

InitStore ==
    /\ now = 0
    /\ users = LifecycleUsers
    /\ magicLinks = {}
    /\ authSessions = {}
    /\ nextToken = 1
    /\ nextUserId = Cardinality(SeedUsers) + 1
    /\ pc = [p \in Procs |-> "idle"]
    /\ loc = [p \in Procs |-> IdleLoc]
    /\ resp = NoResp
    /\ origin = [t \in AllTokens |-> NoOrigin]
    /\ successes = [t \in Tokens |-> 0]
    /\ FrontendInit

Init == InitStore /\ sequential = FALSE
SeqInit == InitStore /\ sequential = TRUE

Next ==
    \/ \E p \in Procs, e \in Emails :
           generateMagicLink_findUser(p, e)
    \/ \E p \in Procs : generateMagicLink_deleteMany(p)
    \/ \E p \in Procs : generateMagicLink_create(p)
    \/ \E p \in Procs, t \in Tokens : validateMagicLink_findUnique(p, t)
    \/ \E p \in Procs : validateMagicLink_update(p)
    \/ \E p \in Procs : validateMagicLink_create(p)
    \/ \E p \in Procs, t \in Tokens : validateSession_findUnique(p, t)
    \/ \E p \in Procs : validateSession_delete(p)
    \/ \E p \in Procs : cleanupExpiredTokens(p)
    \/ \E p \in Procs, c \in Tokens \cup {NoToken} : logout(p, c)
    \/ \E t \in Instants : Tick(t)

Spec == Init /\ [][Next]_vars
SeqSpec == SeqInit /\ [][Next]_vars

\* A call that has started runs on to its end: the event loop resumes every
\* await whose store call has returned.
CallsComplete ==
    /\ WF_vars(generateMagicLink_deleteMany("p1"))
    /\ WF_vars(generateMagicLink_create("p1"))
    /\ WF_vars(validateMagicLink_update("p1"))
    /\ WF_vars(validateMagicLink_create("p1"))
    /\ WF_vars(validateSession_delete("p1"))

\* cleanupExpiredTokens is "à appeler périodiquement": whoever deploys the
\* service calls it again and again.
SweepRecurs == SF_vars(cleanupExpiredTokens("p1"))

\* Sequential runs with a recurring sweep.
LiveSpec == SeqSpec /\ CallsComplete /\ SweepRecurs

\* The calls of AuthService with refreshAccessToken among them.
RefreshNext ==
    \/ Next
    \/ \E p \in Procs, r \in Tokens : refreshAccessToken_findUnique(p, r)
    \/ \E p \in Procs : refreshAccessToken_delete(p)

\* Sequential runs with refreshes.
RefreshSpec == SeqInit /\ [][RefreshNext]_vars

----------------------------------------------------------------------------
(* Infrastructure failures inside validateMagicLinkAndCreateSession: a   *)
(* rejected store call or a throwing signer.  The service runs its three *)
(* store calls and the signing one after the other, outside any          *)
(* transaction, and its catch block only rethrows.                       *)

\* prisma.magicLink.update rejects: nothing has been written yet.
validateMagicLink_update_fails(p) ==
    /\ pc[p] = "validateMagicLink_update"
    /\ Return(p, [op |-> "validateMagicLink",
                  code |-> "MAGIC_LINK_VALIDATION_FAILED",
                  token |-> loc[p].token])
    /\ UNCHANGED <<now, store, nextToken, nextUserId, origin, successes,
                   sequential>>

\* prisma.authSession.create rejects: the link has been marked used already.
validateMagicLink_create_fails(p) ==
    /\ pc[p] = "validateMagicLink_create"
    /\ Return(p, [op |-> "validateMagicLink",
                  code |-> "MAGIC_LINK_VALIDATION_FAILED",
                  token |-> loc[p].token])
    /\ UNCHANGED <<now, store, nextToken, nextUserId, origin, successes,
                   sequential>>

\* JwtUtils.generateAccessToken throws: the session row has been inserted.
validateMagicLink_sign_fails(p) ==
    /\ pc[p] = "validateMagicLink_create"
    /\ UserById(loc[p].user.id) # {}
    /\ authSessions' = authSessions \cup {NewSession(loc[p])}
    /\ origin' = [origin EXCEPT ![loc[p].refreshToken] =
          [kind |-> "refresh", userId |-> loc[p].link.userId,
           link |-> loc[p].token, revoked |-> FALSE,
           ctx |-> Context(loc[p].user)]]
    /\ Return(p, [op |-> "validateMagicLink",
                  code |-> "ACCESS_TOKEN_GENERATION_FAILED",
                  token |-> loc[p].token])
    /\ UNCHANGED <<now, users, magicLinks, nextToken, nextUserId, successes,
                   sequential>>

FaultNext ==
    \/ Next
    \/ \E p \in Procs : validateMagicLink_update_fails(p)
    \/ \E p \in Procs : validateMagicLink_create_fails(p)
    \/ \E p \in Procs : validateMagicLink_sign_fails(p)

\* Sequential runs in which the store and the signer may fail.
FaultSpec == SeqInit /\ [][FaultNext]_vars

----------------------------------------------------------------------------
(* JwtUtils: the access token is a signed payload, checked against the   *)
(* clock alone.                                                          *)

\* ACCESS_TOKEN_EXPIRES_IN = '15m'
AccessTokenMinutes == 15

\* (mutant) the token also dies with the last session of its user
TokenExpired_OrNoSession(tok, t) ==
    \/ t >= tok.iat + AccessTokenMinutes
    \/ \A s \in authSessions : s.userId # tok.userId

\* jwt.verify raises TokenExpiredError once the clock has reached exp,
\* and jwt.sign set exp to iat + expiresIn.
TokenExpired(tok, t) == t >= tok.iat + AccessTokenMinutes

\* JwtUtils.verifyAccessToken
verifyAccessToken_jwt(tok, t) ==
    IF TokenExpired(tok, t)
    THEN [code |-> "ACCESS_TOKEN_EXPIRED"]
    ELSE [code |-> "OK", decoded |-> tok]

\* The refresh secrets whose redeem handed out an access token.
Issued == {r \in Tokens : origin[r].kind = "refresh" /\ "access" \in DOMAIN origin[r]}

\* verifyAccessToken of the access token issued together with refresh secret r.
verifyAccessToken(p, r) ==
    /\ pc[p] = "idle"
    /\ MayAct(p)
    /\ r \in Issued
    /\ Return(p, [op |-> "verifyAccessToken", token |-> r]
                 @@ verifyAccessToken_jwt(origin[r].access, now))
    /\ UNCHANGED <<now, store, nextToken, nextUserId, origin, successes,
                   sequential>>

\* JWT_ACCESS_SECRET, and a key the server does not hold.
ACCESS_TOKEN_SECRET == "JWT_ACCESS_SECRET"
Keys == {ACCESS_TOKEN_SECRET, "forged"}
\* The issuer and audience jwt.sign writes and jwt.verify asks for.
Issuer == "onboarding-ai"
Audience == "frontend-app"
Issuers == {Issuer, "elsewhere"}
Audiences == {Audience, "mobile-app"}

\* JwtUtils.generateAccessToken: the payload, signed with the secret and
\* stamped with issuer and audience.
generateAccessToken(payload) ==
    [claims |-> payload, key |-> ACCESS_TOKEN_SECRET, iss |-> Issuer,
     aud |-> Audience]

\* (mutant) a verification that asks for no audience
verifyAccessToken_signed_AnyAudience(cred, t) ==
    IF cred.key # ACCESS_TOKEN_SECRET THEN [code |-> "INVALID_ACCESS_TOKEN"]
    ELSE IF TokenExpired(cred.claims, t) THEN [code |-> "ACCESS_TOKEN_EXPIRED"]
    ELSE IF cred.iss # Issuer THEN [code |-> "INVALID_ACCESS_TOKEN"]
    ELSE [code |-> "OK", decoded |-> cred.claims]

\* JwtUtils.verifyAccessToken of any presented credential.  jwt.verify tests
\* the signature, then exp, then audience, then issuer; TokenExpiredError
\* is caught first, every other JsonWebTokenError second.
verifyAccessToken_signed(cred, t) ==
    IF cred.key # ACCESS_TOKEN_SECRET THEN [code |-> "INVALID_ACCESS_TOKEN"]
    ELSE IF TokenExpired(cred.claims, t) THEN [code |-> "ACCESS_TOKEN_EXPIRED"]
    ELSE IF cred.aud # Audience THEN [code |-> "INVALID_ACCESS_TOKEN"]
    ELSE IF cred.iss # Issuer THEN [code |-> "INVALID_ACCESS_TOKEN"]
    ELSE verifyAccessToken_jwt(cred.claims, t)

\* The credential issued together with refresh secret r, as a client presents
\* it: untouched, or re-signed with key k, or stamped with issuer i or
\* audience a.
Presented(r, k, i, a) ==
    [generateAccessToken(origin[r].access) EXCEPT !.key = k, !.iss = i, !.aud = a]

\* verifyAccessToken of a presented credential.
verifyPresented(p, r, k, i, a) ==
    /\ pc[p] = "idle"
    /\ MayAct(p)
    /\ r \in Issued
    /\ Return(p, [op |-> "verifyPresented", token |-> r,
                  cred |-> Presented(r, k, i, a)]
                 @@ verifyAccessToken_signed(Presented(r, k, i, a), now))
    /\ UNCHANGED <<now, store, nextToken, nextUserId, origin, successes,
                   sequential>>

\* The rows deleteMany({where: {userId}}) leaves.
SessionsAfterRevokeAll(userId) == {s \in authSessions : s.userId # userId}

\* AuthService.revokeAllUserSessions: deleteMany({where: {userId}})
revokeAllUserSessions_service(p, userId) ==
    /\ pc[p] = "idle"
    /\ MayAct(p)
    /\ authSessions' = SessionsAfterRevokeAll(userId)
    /\ origin' = [r \in AllTokens |->
                    IF origin[r].kind = "refresh" /\ origin[r].userId = userId
                    THEN [origin[r] EXCEPT !.revoked = TRUE]
                    ELSE origin[r]]
    /\ Return(p, [op |-> "revokeAllUserSessions_service", code |-> "OK",
                  userId |-> userId])
    /\ UNCHANGED <<now, users, magicLinks, nextToken, nextUserId, successes,
                   sequential>>

\* The instants around the expiry of the issued access tokens.
AccessInstants ==
    {origin[r].access.iat + AccessTokenMinutes + k : r \in Issued, k \in {-1, 0}}

JwtNext ==
    \/ Next
    \/ \E p \in Procs, r \in Tokens : verifyAccessToken(p, r)
    \/ \E p \in Procs, r \in Tokens, k \in Keys, i \in Issuers, a \in Audiences :
          verifyPresented(p, r, k, i, a)
    \/ \E p \in Procs, u \in LifecycleUsers : revokeAllUserSessions_service(p, u.id)
    \/ \E t \in AccessInstants : Tick(t)

\* Sequential runs with the access tokens in use.
JwtSpec == SeqInit /\ [][JwtNext]_vars

----------------------------------------------------------------------------
(* prisma.user.delete, as UsersService.deleteUser runs it, next to the   *)
(* calls of AuthService.  magic_links_user_id_fkey and                   *)
(* auth_sessions_user_id_fkey are ON DELETE CASCADE.                     *)

\* (mutant) the foreign key of auth_sessions does not cascade
OwnedSessions_None(userId) == {}

\* The rows the delete of a user takes with it.
OwnedSessions(userId) == {s \in authSessions : s.userId = userId}
OwnedLinks(userId) == {l \in magicLinks : l.userId = userId}

deleteUser_delete(p, userId) ==
    /\ pc[p] = "idle"
    /\ MayAct(p)
    /\ UserById(userId) # {}
    /\ users' = users \ UserById(userId)
    /\ magicLinks' = magicLinks \ OwnedLinks(userId)
    /\ authSessions' = authSessions \ OwnedSessions(userId)
    /\ Return(p, [op |-> "deleteUser_delete", code |-> "OK", userId |-> userId])
    /\ UNCHANGED <<now, nextToken, nextUserId, origin, successes, sequential>>

CascadeNext ==
    \/ \E p \in Procs, e \in Emails :
           generateMagicLink_findUser(p, e)
    \/ \E p \in Procs : generateMagicLink_deleteMany(p)
    \/ \E p \in Procs : generateMagicLink_create(p)
    \/ \E p \in Procs, t \in Tokens : validateMagicLink_findUnique(p, t)
    \/ \E p \in Procs : validateMagicLink_update(p)
    \/ \E p \in Procs : validateMagicLink_create(p)
    \/ \E p \in Procs, t \in Tokens : validateSession_findUnique(p, t)
    \/ \E p \in Procs, u \in LifecycleUsers : deleteUser_delete(p, u.id)

\* Concurrent calls of AuthService while principals are being deleted, at a
\* fixed instant: nothing expires.
CascadeSpec == Init /\ [][CascadeNext]_vars

----------------------------------------------------------------------------
(* POST /api/auth/verify: AuthController.verifyMagicLink parses the body *)
(* with verifyMagicLinkSchema before it calls the service.               *)

\* .min(64) and .max(64)
TokenLength == 64

\* What the body holds under "token": a value of some JSON kind; for a string
\* its length, the kind of characters it is made of, and, when it has the
\* shape of a secret, which one (the field is not read for any other
\* text).
Lengths == {0, TokenLength - 1, TokenLength, TokenLength + 1}
CharClasses == {"lowerhex", "upperhex", "other"}
VerifyBodies ==
    {b \in [kind : {"string", "null", "missing"}, len : Lengths,
            chars : CharClasses, secret : Tokens] :
        /\ b.kind # "string" => (b.len = 0 /\ b.chars = "other")
        /\ (b.kind = "string" /\ b.len = TokenLength /\ b.chars = "lowerhex")
              \/ b.secret = 1}

\* (mutant) the schema without its .regex
verifyMagicLinkSchema_LengthOnly(b) ==
    /\ b.kind = "string"
    /\ b.len >= TokenLength
    /\ b.len <= TokenLength

\* z.string().min(64).max(64).regex(/^[a-f0-9]{64}$/) accepts b
verifyMagicLinkSchema(b) ==
    /\ b.kind = "string"
    /\ b.len >= TokenLength
    /\ b.len <= TokenLength
    /\ b.len = TokenLength /\ b.chars = "lowerhex"

\* The handler up to its first await: a ZodError goes to errorHandler, which
\* answers 400; otherwise the service starts with the token.
verifyMagicLink(p, b) ==
    IF verifyMagicLinkSchema(b)
    THEN validateMagicLink_findUnique(p, b.secret)
    ELSE /\ pc[p] = "idle"
         /\ MayAct(p)
         /\ Return(p, [op |-> "verifyMagicLink", status |-> 400,
                       code |-> "VALIDATION_ERROR"])
         /\ UNCHANGED <<now, store, nextToken, nextUserId, origin, successes,
                        sequential>>

VerifyNext ==
    \/ Next
    \/ \E p \in Procs, b \in VerifyBodies : verifyMagicLink(p, b)

\* Sequential runs in which the verify requests arrive as HTTP bodies.
VerifySpec == SeqInit /\ [][VerifyNext]_vars

----------------------------------------------------------------------------
(* The middleware chain of the protected routes *)

\* (mutant) the expiry of the session is not looked at
Authenticate_IgnoresExpiry(cookie) ==
    IF cookie = NoToken THEN "NO_TOKEN"
    ELSE IF SessionByHash(Hash(cookie)) = {} THEN "INVALID_SESSION"
    ELSE "OK"

\* authenticateToken: the outcome of validateSession on the session_token cookie
Authenticate(cookie) ==
    IF cookie = NoToken THEN "NO_TOKEN"
    ELSE IF SessionByHash(Hash(cookie)) = {} THEN "INVALID_SESSION"
    ELSE IF SessionExpired(The(SessionByHash(Hash(cookie))), now)
    THEN "EXPIRED_SESSION"
    ELSE "OK"

\* (mutant) the context is the one of session-creation time
ReqUser_AtCreation(cookie) == origin[cookie].ctx

\* req.user, once authenticateToken has called next()
ReqUser(cookie) ==
    Context(The(UserById(The(SessionByHash(Hash(cookie))).userId)))

\* The row validateSession deletes when it finds the presented session expired.
ExpiredBy(cookie) ==
    {s \in SessionByHash(Hash(cookie)) : cookie # NoToken /\ SessionExpired(s, now)}

\* What a route leaves behind: the three tables, the next key, the response.
Outcome(r, us, ls, ss, next) ==
    [resp |-> r, users |-> us, links |-> ls, sessions |-> ss, nextUserId |-> next]

Reply(r) == Outcome(r, users, magicLinks, authSessions, nextUserId)

\* authenticateToken answers 401 itself; the route handler is not run.
Reject401(op, cookie) ==
    Outcome([op |-> op, status |-> 401, code |-> Authenticate(cookie)],
            users, magicLinks, authSessions \ ExpiredBy(cookie), nextUserId)

\* requireRole(allowedRoles) answers 403.
Reject403(op) ==
    Reply([op |-> op, status |-> 403, code |-> "INSUFFICIENT_PERMISSIONS"])

\* The event keeps, with the response, the cookie the request carried ...
By(cookie, o) == [o EXCEPT !.resp = [by |-> cookie] @@ @]

\* ... and the :userId of its path, once the controller has parsed it.
About(userId, o) == [o EXCEPT !.resp = [target |-> userId] @@ @]

\* authenticateToken, then requireRole(allowed), then the handler's outcome.
\* requireCompanyAccess only attaches req.companyFilter, which nothing reads.
Guarded(op, cookie, allowed, handled) ==
    By(cookie,
       IF Authenticate(cookie) # "OK" THEN Reject401(op, cookie)
       ELSE IF ReqUser(cookie).role \notin allowed THEN Reject403(op)
       ELSE handled)

\* Every seeded principal logged in at instant 0.
SeedSession(u) ==
    [id |-> SeedSecret(u.id), userId |-> u.id,
     tokenHash |-> Hash(SeedSecret(u.id)), expiresAt |-> SessionTtl]

\* Seeded principals whose user row or session row is no longer the seeded
\* one, plus principals created.
Drift(us, ss) ==
    Cardinality({u \in SeedUsers : u \notin us \/ SeedSession(u) \notin ss})
        + Cardinality({u \in us : u.id \notin SeedIds})

\* The request of process p is served atomically with outcome o.
Serve(p, outcome) ==
    /\ pc[p] = "idle"
    /\ MayAct(p)
    /\ \E o \in {outcome} :
          /\ Drift(o.users, o.sessions) <= MaxDrift
          /\ users' = o.users
          /\ magicLinks' = o.links
          /\ authSessions' = o.sessions
          /\ nextUserId' = o.nextUserId
          /\ Return(p, o.resp)
    /\ UNCHANGED <<now, nextToken, origin, successes, sequential>>

----------------------------------------------------------------------------
(* requireRole([...]) of each route; GET /me and GET /:userId have none *)

RevokeAllRoles == {ADMIN_RH}
ListRoles == {ADMIN_RH, MANAGER}
\* (mutant) POST / without its requireRole
CreateRoles_Any == Role
CreateRoles == {ADMIN_RH}
ByEmailRoles == {ADMIN_RH, MANAGER}
UpdateRoles == {ADMIN_RH, MANAGER}
\* (mutant) DELETE /:userId without its requireRole
DeleteRoles_Any == Role
DeleteRoles == {ADMIN_RH}

----------------------------------------------------------------------------
(* GET /api/auth/me *)

\* The controller answers with the fields of req.user.
getCurrentUser_controller(cookie, user) ==
    Reply([op |-> "getCurrentUser", status |-> 200, code |-> "OK",
           token |-> cookie, user |-> user])

getCurrentUser(p, cookie) ==
    Serve(p, Guarded("getCurrentUser", cookie, Role,
                     getCurrentUser_controller(cookie, ReqUser(cookie))))

----------------------------------------------------------------------------
(* POST /api/auth/revoke-all-sessions/:userId *)

\* (mutant) a target without sessions is an error
revokeAllUserSessions_controller_Strict(currentUser, userId) ==
    IF currentUser.role # ADMIN_RH
    THEN Reject403("revokeAllUserSessions")
    ELSE IF \A s \in authSessions : s.userId # userId
    THEN Reply([op |-> "revokeAllUserSessions", status |-> 404,
                code |-> "NOT_FOUND"])
    ELSE Outcome([op |-> "revokeAllUserSessions", status |-> 200, code |-> "OK"],
                 users, magicLinks, {s \in authSessions : s.userId # userId},
                 nextUserId)

\* The controller's own check, then the service call.
revokeAllUserSessions_controller(currentUser, userId) ==
    IF currentUser.role # ADMIN_RH
    THEN Reject403("revokeAllUserSessions")
    ELSE Outcome([op |-> "revokeAllUserSessions", status |-> 200, code |-> "OK"],
                 users, magicLinks, SessionsAfterRevokeAll(userId), nextUserId)

revokeAllUserSessions(p, cookie, userId) ==
    Serve(p, Guarded("revokeAllUserSessions", cookie, RevokeAllRoles,
                     About(userId, revokeAllUserSessions_controller(
                                       ReqUser(cookie), userId))))

----------------------------------------------------------------------------
(* UsersService, behind the routes of /api/users *)

\* (mutant) the clause stops at the company
ScopedWhere_CompanyOnly(u, requestingUser) ==
    u.companyId = requestingUser.companyId

\* The where clause the service builds around its key: the requester's
\* company, the requester's team for a MANAGER.
ScopedWhere(u, requestingUser) ==
    /\ u.companyId = requestingUser.companyId
    /\ requestingUser.role = MANAGER => u.teamId = requestingUser.teamId

\* where.id: a COLLABORATEUR's own id overwrites the id asked for.
IdWhere(u, userId, requestingUser) ==
    u.id = (IF requestingUser.role = COLLABORATEUR THEN requestingUser.id
            ELSE userId)

\* {email, ...}: a COLLABORATEUR's own id is added to the clause.
EmailWhere(u, email, requestingUser) ==
    /\ u.email = email
    /\ requestingUser.role = COLLABORATEUR => u.id = requestingUser.id

\* The where clause of listUsers.
ListWhere(u, query, requestingUser) ==
    /\ u.companyId = (IF query.companyId # Absent THEN query.companyId
                      ELSE requestingUser.companyId)
    /\ requestingUser.role = MANAGER => u.teamId = requestingUser.teamId
    /\ query.role # Absent => u.role = query.role

listUsers_service(query, requestingUser) ==
    Reply([op |-> "listUsers", status |-> 200, code |-> "OK",
           data |-> {u \in users : ListWhere(u, query, requestingUser)}])

listUsers(p, cookie, query) ==
    Serve(p, Guarded("listUsers", cookie, ListRoles,
                     listUsers_service(query, ReqUser(cookie))))

\* findUnique under the scoped where clause; the controller answers 404 on null.
Found(op, rows) ==
    IF rows = {}
    THEN Reply([op |-> op, status |-> 404, code |-> "USER_NOT_FOUND"])
    ELSE Reply([op |-> op, status |-> 200, code |-> "OK", data |-> rows])

getUserById_service(userId, requestingUser) ==
    Found("getUserById",
          {u \in users : IdWhere(u, userId, requestingUser)
                             /\ ScopedWhere(u, requestingUser)})

getUserById(p, cookie, userId) ==
    Serve(p, Guarded("getUserById", cookie, Role,
                     About(userId, getUserById_service(userId, ReqUser(cookie)))))

getUserByEmail_service(email, requestingUser) ==
    Found("getUserByEmail",
          {u \in users : EmailWhere(u, email, requestingUser)
                             /\ ScopedWhere(u, requestingUser)})

getUserByEmail(p, cookie, email) ==
    Serve(p, Guarded("getUserByEmail", cookie, ByEmailRoles,
                     getUserByEmail_service(email, ReqUser(cookie))))

\* (mutant) no business rule on role and team
RoleTeamError_None(role, teamId) == "none"

\* Business rules on role and team, shared by createUser and updateUser.
RoleTeamError(role, teamId) ==
    IF role = MANAGER /\ teamId = NoTeam THEN "TEAM_ID_REQUIRED"
    ELSE IF role = ADMIN_RH /\ teamId # NoTeam THEN "TEAM_ID_NOT_ALLOWED"
    ELSE "none"

\* createUser: data is the body as createUserSchema parsed it; an absent
\* teamId is stored as null.
createUser_service(data) ==
    IF data.companyId \notin Companies
    THEN Reply([op |-> "createUser", status |-> 404, code |-> "COMPANY_NOT_FOUND"])
    ELSE IF RoleTeamError(data.role, data.teamId) # "none"
    THEN Reply([op |-> "createUser", status |-> 400,
                code |-> RoleTeamError(data.role, data.teamId)])
    ELSE IF UserByEmail(data.email) # {}
    THEN \* unique index users_email_key: the insert throws P2002
         Reply([op |-> "createUser", status |-> 500,
                code |-> "USER_CREATION_FAILED"])
    ELSE Outcome([op |-> "createUser", status |-> 201, code |-> "OK",
                  data |-> {[id |-> nextUserId, email |-> data.email,
                             role |-> data.role, companyId |-> data.companyId,
                             teamId |-> data.teamId]}],
                 users \cup {[id |-> nextUserId, email |-> data.email,
                              role |-> data.role, companyId |-> data.companyId,
                              teamId |-> data.teamId]},
                 magicLinks, authSessions, nextUserId + 1)

createUser(p, cookie, data) ==
    /\ nextUserId \in UserIds
    /\ Serve(p, Guarded("createUser", cookie, CreateRoles,
                        createUser_service(data)))

\* updateUser: the role and team the row ends with (lines 273-274).
NewRole(data, existingUser) ==
    IF data.role # Absent THEN data.role ELSE existingUser.role
NewTeamId(data, existingUser) ==
    IF data.teamId # Absent THEN data.teamId ELSE existingUser.teamId

\* The row prisma.user.update writes: {...data, teamId: ...}
UpdatedUser(data, existingUser) ==
    [existingUser EXCEPT
       !.email = IF data.email # Absent THEN data.email ELSE @,
       !.role = NewRole(data, existingUser),
       !.teamId = IF NewRole(data, existingUser) = ADMIN_RH THEN NoTeam
                  ELSE NewTeamId(data, existingUser)]

updateUser_service(userId, data, requestingUser) ==
    LET rows == {u \in users : IdWhere(u, userId, requestingUser)
                             /\ ScopedWhere(u, requestingUser)}
        existingUser == The(rows)
    IN  IF rows = {}
        THEN Reply([op |-> "updateUser", status |-> 404, code |-> "USER_NOT_FOUND"])
        ELSE IF RoleTeamError(NewRole(data, existingUser),
                              NewTeamId(data, existingUser)) # "none"
        THEN Reply([op |-> "updateUser", status |-> 400,
                    code |-> RoleTeamError(NewRole(data, existingUser),
                                           NewTeamId(data, existingUser))])
        ELSE IF /\ data.email # Absent
                /\ \E u \in users : u.email = data.email /\ u.id # existingUser.id
        THEN \* unique index users_email_key: the update throws P2002
             Reply([op |-> "updateUser", status |-> 500,
                    code |-> "USER_UPDATE_FAILED"])
        ELSE Outcome([op |-> "updateUser", status |-> 200, code |-> "OK",
                      data |-> {UpdatedUser(data, existingUser)}],
                     (users \ rows) \cup {UpdatedUser(data, existingUser)},
                     magicLinks, authSessions, nextUserId)

updateUser(p, cookie, userId, data) ==
    Serve(p, Guarded("updateUser", cookie, UpdateRoles,
                     About(userId, updateUser_service(userId, data,
                                                      ReqUser(cookie)))))

\* deleteUser: the foreign keys cascade to magic_links and auth_sessions.
deleteUser_service(userId, requestingUser) ==
    LET rows == {u \in users : IdWhere(u, userId, requestingUser)
                             /\ ScopedWhere(u, requestingUser)}
    IN  IF requestingUser.role = COLLABORATEUR
        THEN Reply([op |-> "deleteUser", status |-> 403, code |-> "UNAUTHORIZED"])
        ELSE IF rows = {}
        THEN Reply([op |-> "deleteUser", status |-> 404, code |-> "USER_NOT_FOUND"])
        ELSE Outcome([op |-> "deleteUser", status |-> 200, code |-> "OK"],
                     users \ rows,
                     {l \in magicLinks : l.userId # userId},
                     {s \in authSessions : s.userId # userId},
                     nextUserId)

deleteUser(p, cookie, userId) ==
    Serve(p, Guarded("deleteUser", cookie, DeleteRoles,
                     About(userId, deleteUser_service(userId, ReqUser(cookie)))))

----------------------------------------------------------------------------
(* The API, one client, every seeded principal logged in *)

\* The seeded store: every seeded principal holds one session, and the clock
\* stands at the last instant at which those sessions are accepted.
SeededStore ==
    /\ now = SessionTtl
    /\ users = SeedUsers
    /\ magicLinks = {}
    /\ authSessions = {SeedSession(u) : u \in SeedUsers}
    /\ nextToken = 1
    /\ nextUserId = Cardinality(SeedUsers) + 1
    /\ pc = [p \in Procs |-> "idle"]
    /\ loc = [p \in Procs |-> IdleLoc]
    /\ resp = NoResp
    /\ origin = [t \in AllTokens |->
                   IF t \in Tokens THEN NoOrigin
                   ELSE [kind |-> "refresh", userId |-> t - MaxTokens,
                         link |-> NoToken, revoked |-> FALSE,
                         ctx |-> Context(The({u \in SeedUsers :
                                                 SeedSecret(u.id) = t}))]]
    /\ successes = [t \in Tokens |-> 0]
    /\ FrontendInit

ApiInit == SeededStore /\ sequential = TRUE

\* The inputs of the requests: the cookie presented, the query, the body.
Cookies == {SeedSecret(id) : id \in SeedIds} \cup {NoToken}
ListQueries ==
    {q \in [companyId : Companies \cup {Absent}, role : {MANAGER, Absent}] :
        q.companyId = Absent \/ q.role = Absent}
CreateBodies ==
    {d \in [email : {NewEmail, "alice@acme.com"}, role : Role,
            companyId : Companies \cup {UnknownCompany},
            teamId : {"t1", NoTeam}] :
        (d.email # NewEmail \/ d.companyId = UnknownCompany)
            => (d.role = COLLABORATEUR /\ d.teamId = NoTeam)}
UpdateBodies ==
    {d \in [email : {Absent, "alice@acme.com"}, role : Role \cup {Absent},
            teamId : Teams \cup {NoTeam, Absent}] :
        d.email # Absent => (d.role = Absent /\ d.teamId = Absent)}

\* A request the middleware refuses is answered the same whatever its
\* parameters: one parameter stands for all of them.
Params(c, allowed, S) ==
    IF Authenticate(c) = "OK" /\ ReqUser(c).role \in allowed
    THEN S
    ELSE {CHOOSE x \in S : TRUE}

ApiNext ==
    \/ \E p \in Procs, c \in Cookies :
         \E id \in Params(c, RevokeAllRoles, UserIds) : revokeAllUserSessions(p, c, id)
    \/ \E p \in Procs, c \in Cookies :
         \E q \in Params(c, ListRoles, ListQueries) : listUsers(p, c, q)
    \/ \E p \in Procs, c \in Cookies :
         \E id \in Params(c, Role, UserIds) : getUserById(p, c, id)
    \/ \E p \in Procs, c \in Cookies :
         \E e \in Params(c, ByEmailRoles, Emails) : getUserByEmail(p, c, e)
    \/ \E p \in Procs, c \in Cookies :
         \E d \in Params(c, CreateRoles, CreateBodies) : createUser(p, c, d)
    \/ \E p \in Procs, c \in Cookies :
         \E id \in Params(c, UpdateRoles, UserIds) :
           \E d \in Params(c, UpdateRoles, UpdateBodies) :
             updateUser(p, c, id, d)
    \/ \E p \in Procs, c \in Cookies :
         \E id \in Params(c, DeleteRoles, UserIds) : deleteUser(p, c, id)
    \/ \E p \in Procs, c \in Cookies : getCurrentUser(p, c)
    \/ \E p \in Procs, c \in Cookies :
         logout(p, c) /\ Drift(users', authSessions') <= MaxDrift
    \/ \E t \in Instants : Tick(t)

ApiSpec == ApiInit /\ [][ApiNext]_vars

----------------------------------------------------------------------------
(* Overlapping validateSession and refreshAccessToken calls on sessions  *)
(* that reach their expiry, each call suspended at its awaits.           *)

\* The session secrets the two clients of these runs hold.
HeldSecrets == {SeedSecret(u.id) : u \in LifecycleUsers}

ExpiryInit == SeededStore /\ sequential = FALSE

ExpiryNext ==
    \/ \E p \in Procs, r \in HeldSecrets : validateSession_findUnique(p, r)
    \/ \E p \in Procs : validateSession_delete(p)
    \/ \E p \in Procs, r \in HeldSecrets : refreshAccessToken_findUnique(p, r)
    \/ \E p \in Procs : refreshAccessToken_delete(p)
    \/ \E t \in Instants : Tick(t)

ExpirySpec == ExpiryInit /\ [][ExpiryNext]_vars

----------------------------------------------------------------------------
(* optionalAuth: the middleware that authenticates when it can *)

\* req.user left undefined.
NoReqUser == [id |-> NoUserId, role |-> "none", companyId |-> NoCompany,
              teamId |-> NoTeam]

\* The outcome when validateSession was not called: no cookie came.
NotCalled == [code |-> "NOT_CALLED"]

\* (mutant) a failed validation is answered as authenticateToken answers it
optionalAuth_next_Strict(cookie, result) ==
    IF result.code \in {"OK", "NOT_CALLED"}
    THEN [op |-> "optionalAuth", code |-> "NEXT", token |-> cookie,
          nextCalls |-> 1, sent |-> FALSE, swallowed |-> result.code,
          user |-> IF result.code = "OK" THEN result.user ELSE NoReqUser]
    ELSE [op |-> "optionalAuth", code |-> result.code, token |-> cookie,
          nextCalls |-> 0, sent |-> TRUE, swallowed |-> "none",
          user |-> NoReqUser]

\* What optionalAuth does with the outcome of validateSession: req.user is
\* assigned on a return, a throw is swallowed, and next() is called.
optionalAuth_next(cookie, result) ==
    [op |-> "optionalAuth", code |-> "NEXT", token |-> cookie,
     nextCalls |-> 1, sent |-> FALSE, swallowed |-> result.code,
     user |-> IF result.code = "OK" THEN result.user ELSE NoReqUser]

\* optionalAuth up to the first await of validateSession.
optionalAuth_cookie(p, cookie) ==
    /\ pc[p] = "idle"
    /\ MayAct(p)
    /\ LET found == SessionByHash(Hash(cookie))
       IN  IF cookie = NoToken
           THEN Return(p, optionalAuth_next(cookie, NotCalled))
           ELSE IF found = {}
           THEN Return(p, optionalAuth_next(cookie, [code |-> "INVALID_SESSION"]))
           ELSE IF SessionExpired(The(found), now)
           THEN Suspend(p, "optionalAuth_delete",
                        [op |-> "optionalAuth", token |-> cookie,
                         sessionId |-> The(found).id])
           ELSE Return(p, optionalAuth_next(cookie,
                    [code |-> "OK",
                     user |-> Context(The(UserById(The(found).userId)))]))
    /\ UNCHANGED <<now, store, nextToken, nextUserId, origin, successes,
                   sequential>>

\* validateSession deletes the expired row and throws; the throw is swallowed.
optionalAuth_delete(p) ==
    /\ pc[p] = "optionalAuth_delete"
    /\ IF \A s \in authSessions : s.id # loc[p].sessionId
       THEN /\ Return(p, optionalAuth_next(loc[p].token,
                            [code |-> "SESSION_VALIDATION_FAILED"]))
            /\ UNCHANGED authSessions
       ELSE /\ authSessions' = {s \in authSessions : s.id # loc[p].sessionId}
            /\ Return(p, optionalAuth_next(loc[p].token,
                            [code |-> "EXPIRED_SESSION"]))
    /\ UNCHANGED <<now, users, magicLinks, nextToken, nextUserId, origin,
                   successes, sequential>>

\* prisma.authSession.findUnique rejects: validateSession throws
\* SESSION_VALIDATION_FAILED, swallowed as well.
optionalAuth_storeFails(p, cookie) ==
    /\ pc[p] = "idle"
    /\ MayAct(p)
    /\ cookie # NoToken
    /\ Return(p, optionalAuth_next(cookie, [code |-> "SESSION_VALIDATION_FAILED"]))
    /\ UNCHANGED <<now, store, nextToken, nextUserId, origin, successes,
                   sequential>>

OptionalAuthNext ==
    \/ Next
    \/ \E p \in Procs, c \in Tokens \cup {NoToken} : optionalAuth_cookie(p, c)
    \/ \E p \in Procs : optionalAuth_delete(p)
    \/ \E p \in Procs, c \in Tokens : optionalAuth_storeFails(p, c)

\* Sequential runs with requests that pass through optionalAuth.
OptionalAuthSpec == SeqInit /\ [][OptionalAuthNext]_vars

----------------------------------------------------------------------------
(* AuthApiClient: fetchWithAuth, refreshAccessToken, performRefresh.  The  *)
(* browser runs one piece of code at a time; a call is cut at its awaits.  *)

Settled(n) == promises[n] \in {"fulfilled", "rejected"}
Pending == {n \in Promises : promises[n] = "pending"}
Unborn == {n \in Promises : promises[n] = "unborn"}

\* (mutant) the test of refreshPromise is skipped
AlreadyRefreshing_Never == FALSE

\* if (this.refreshPromise)
AlreadyRefreshing == refreshPromise # NoPromise

\* refreshAccessToken up to its await, called by fetcher f: the pending
\* promise is returned, or performRefresh is called and its promise kept.
refreshAccessToken_call(f) ==
    IF AlreadyRefreshing
    THEN /\ fetchers' = [fetchers EXCEPT ![f] =
                [at |-> "shared", promise |-> refreshPromise, result |-> "none"]]
         /\ UNCHANGED <<refreshPromise, promises>>
    ELSE /\ Unborn # {}
         /\ LET n == CHOOSE m \in Unborn : \A k \in Unborn : m <= k
            IN  /\ promises' = [promises EXCEPT ![n] = "pending"]
                /\ refreshPromise' = n
                /\ fetchers' = [fetchers EXCEPT ![f] =
                      [at |-> "starter", promise |-> n, result |-> "none"]]

\* fetchWithAuth sends its first request.
fetchWithAuth_first(f) ==
    /\ fetchers[f].at = "idle"
    /\ fetchers' = [fetchers EXCEPT ![f] =
          [at |-> "first", promise |-> NoPromise, result |-> "none"]]
    /\ UNCHANGED <<backend, refreshPromise, promises, authState, storeCalls,
                   serverSession, loggedOut>>

\* The first request settles: a response, ACCESS_TOKEN_EXPIRED (the catch
\* block calls refreshAccessToken), or another error.
fetchWithAuth_firstSettles(f, outcome) ==
    /\ fetchers[f].at = "first"
    /\ IF outcome = "ACCESS_TOKEN_EXPIRED"
       THEN refreshAccessToken_call(f)
       ELSE /\ fetchers' = [fetchers EXCEPT ![f] =
                   [IdleFetcher EXCEPT !.result = outcome]]
            /\ UNCHANGED <<refreshPromise, promises>>
    /\ UNCHANGED <<backend, authState, storeCalls, serverSession, loggedOut>>

\* The request of performRefresh settles.
performRefresh_settles(n, ok) ==
    /\ promises[n] = "pending"
    /\ promises' = [promises EXCEPT ![n] = IF ok THEN "fulfilled" ELSE "rejected"]
    /\ UNCHANGED <<backend, refreshPromise, fetchers, authState, storeCalls,
                   serverSession, loggedOut>>

\* What fetchWithAuth does once the refresh it awaits has settled: the retry
\* with the new token, or the refresh error is propagated.
AfterRefresh(f) ==
    IF promises[fetchers[f].promise] = "fulfilled"
    THEN [at |-> "retry", promise |-> fetchers[f].promise, result |-> "none"]
    ELSE [IdleFetcher EXCEPT !.result = "REFRESH_ERROR"]

\* The caller that started the refresh resumes: finally clears refreshPromise.
refreshAccessToken_finally(f) ==
    /\ fetchers[f].at = "starter"
    /\ Settled(fetchers[f].promise)
    /\ refreshPromise' = NoPromise
    /\ fetchers' = [fetchers EXCEPT ![f] = AfterRefresh(f)]
    /\ UNCHANGED <<backend, promises, authState, storeCalls, serverSession,
                   loggedOut>>

\* A caller that was handed the pending promise resumes.
refreshAccessToken_shared(f) ==
    /\ fetchers[f].at = "shared"
    /\ Settled(fetchers[f].promise)
    /\ fetchers' = [fetchers EXCEPT ![f] = AfterRefresh(f)]
    /\ UNCHANGED <<backend, refreshPromise, promises, authState, storeCalls,
                   serverSession, loggedOut>>

\* The retry settles; its result is the result of fetchWithAuth.
fetchWithAuth_retrySettles(f, outcome) ==
    /\ fetchers[f].at = "retry"
    /\ fetchers' = [fetchers EXCEPT ![f] = [IdleFetcher EXCEPT !.result = outcome]]
    /\ UNCHANGED <<backend, refreshPromise, promises, authState, storeCalls,
                   serverSession, loggedOut>>

FetchOutcomes == {"ok", "ACCESS_TOKEN_EXPIRED", "HTTP_ERROR"}

ClientNext ==
    \/ \E f \in Fetchers : fetchWithAuth_first(f)
    \/ \E f \in Fetchers, o \in FetchOutcomes : fetchWithAuth_firstSettles(f, o)
    \/ \E n \in Promises, ok \in BOOLEAN : performRefresh_settles(n, ok)
    \/ \E f \in Fetchers : refreshAccessToken_finally(f)
    \/ \E f \in Fetchers : refreshAccessToken_shared(f)
    \/ \E f \in Fetchers, o \in FetchOutcomes : fetchWithAuth_retrySettles(f, o)

\* The API client of one browser tab, with concurrent fetchWithAuth calls.
ClientSpec == Init /\ [][ClientNext]_vars

----------------------------------------------------------------------------
(* useAuthStore: validateMagicLink, refreshAuth, logout.  Each action    *)
(* sends one request (authApi.verifyMagicLink, refreshToken, logout),    *)
(* the server answers it from the session of the browser's cookie, and   *)
(* the action resumes when the answer arrives.                           *)

StoreOps == {"validateMagicLink", "refreshAuth", "logout"}

\* A store action is called and suspends at its await; validateMagicLink
\* sets isLoading first.
storeAction_called(c, op) ==
    /\ storeCalls[c].at = "idle"
    /\ storeCalls' = [storeCalls EXCEPT ![c] =
          [op |-> op, at |-> "sent", ok |-> FALSE, stale |-> FALSE]]
    /\ authState' = IF op = "validateMagicLink"
                    THEN [authState EXCEPT !.isLoading = TRUE]
                    ELSE authState
    /\ UNCHANGED <<backend, refreshPromise, promises, fetchers, serverSession,
                   loggedOut>>

\* The server handles the request: a redeem of a valid link opens the
\* session, a refresh or a logout succeeds when the session is stored, and a
\* logout deletes it.
server_answers(c, validLink) ==
    /\ storeCalls[c].at = "sent"
    /\ storeCalls[c].op # "validateMagicLink" => validLink
    /\ LET op == storeCalls[c].op
           ok == IF op = "validateMagicLink" THEN validLink ELSE serverSession
       IN  /\ storeCalls' = [storeCalls EXCEPT ![c].at = "answered", ![c].ok = ok]
           /\ serverSession' = CASE op = "validateMagicLink" -> (serverSession \/ ok)
                                 [] op = "refreshAuth" -> serverSession
                                 [] op = "logout" -> FALSE
    /\ UNCHANGED <<backend, refreshPromise, promises, fetchers, authState,
                   loggedOut>>

\* validateMagicLink resumes: the try block's set, or the catch block's.
validateMagicLink_settles(c) ==
    /\ storeCalls[c].at = "answered"
    /\ storeCalls[c].op = "validateMagicLink"
    /\ authState' = IF storeCalls[c].ok
                    THEN [isAuthenticated |-> TRUE, isLoading |-> FALSE,
                          user |-> SomeUser, accessToken |-> SomeAccessToken]
                    ELSE [authState EXCEPT !.isLoading = FALSE]
    /\ loggedOut' = (loggedOut /\ ~(storeCalls[c].ok /\ ~storeCalls[c].stale))
    /\ storeCalls' = [storeCalls EXCEPT ![c] = IdleStoreCall]
    /\ UNCHANGED <<backend, refreshPromise, promises, fetchers, serverSession>>

\* refreshAuth resumes: the try block's set, or the catch block's.
refreshAuth_settles(c) ==
    /\ storeCalls[c].at = "answered"
    /\ storeCalls[c].op = "refreshAuth"
    /\ authState' = IF storeCalls[c].ok
                    THEN [authState EXCEPT !.isAuthenticated = TRUE,
                                           !.user = SomeUser,
                                           !.accessToken = SomeAccessToken]
                    ELSE [authState EXCEPT !.isAuthenticated = FALSE,
                                           !.user = NoUser,
                                           !.accessToken = NoAccessToken]
    /\ loggedOut' = (loggedOut /\ ~(storeCalls[c].ok /\ ~storeCalls[c].stale))
    /\ storeCalls' = [storeCalls EXCEPT ![c] = IdleStoreCall]
    /\ UNCHANGED <<backend, refreshPromise, promises, fetchers, serverSession>>

\* logout resumes: whatever the answer, finally clears the state.  The calls
\* then in flight were started before this logout completed.
logout_settles(c) ==
    /\ storeCalls[c].at = "answered"
    /\ storeCalls[c].op = "logout"
    /\ authState' = SignedOut
    /\ loggedOut' = TRUE
    /\ storeCalls' = [d \in StoreCallers |->
          IF d = c THEN IdleStoreCall
          ELSE IF storeCalls[d].at = "idle" THEN storeCalls[d]
          ELSE [storeCalls[d] EXCEPT !.stale = TRUE]]
    /\ UNCHANGED <<backend, refreshPromise, promises, fetchers, serverSession>>

StoreNext ==
    \/ \E c \in StoreCallers, op \in StoreOps : storeAction_called(c, op)
    \/ \E c \in StoreCallers, v \in BOOLEAN : server_answers(c, v)
    \/ \E c \in StoreCallers : validateMagicLink_settles(c)
    \/ \E c \in StoreCallers : refreshAuth_settles(c)
    \/ \E c \in StoreCallers : logout_settles(c)

\* The auth store of one browser tab, with overlapping store actions.
StoreSpec == Init /\ [][StoreNext]_vars

----------------------------------------------------------------------------
(* Vocabulary of the properties *)

\* The call of process p has just thrown or returned with this code.
Returned(p, code) == pc'[p] = "idle" /\ resp'.code = code

\* The magic-link secrets issued so far, and the refresh secrets minted from one.
IsLink(t) == origin[t].kind = "link"
RefreshOf(t) == {r \in Tokens : origin[r].kind = "refresh" /\ origin[r].link = t}

\* Links a redeem would accept, as the data model words it: not redeemed, and
\* the clock before expires-at.
Redeemable(l) == l.usedAt = NoTime /\ now < l.expiresAt

----------------------------------------------------------------------------
(* C1: two redemptions of one magic link, their store accesses interleaved *)
(* in any order, never both return success, and at most one session is     *)
(* ever created from one link.                                             *)

C1_SingleRedemption ==
    \A t \in Tokens : successes[t] <= 1 /\ Cardinality(RefreshOf(t)) <= 1

----------------------------------------------------------------------------
(* C2: in a sequential run, redeem(S) of a valid, unexpired, unredeemed    *)
(* secret S runs to a successful return, and a redeem(S) that follows it   *)
(* immediately fails with TOKEN_ALREADY_USED and creates no session.       *)

JustRedeemed(t) ==
    resp.op = "validateMagicLink" /\ resp.code = "OK" /\ resp.token = t

C2_ReplayRejected ==
    [][ /\ \A t \in Tokens :
             (JustRedeemed(t) /\ validateMagicLink_findUnique("p1", t))
                 => (Returned("p1", "TOKEN_ALREADY_USED") /\ UNCHANGED store)
        /\ \A t \in Tokens :
             ( /\ validateMagicLink_findUnique("p1", t)
               /\ \E l \in LinkByHash(Hash(t)) : Redeemable(l) )
                 => pc'["p1"] = "validateMagicLink_update"
        /\ validateMagicLink_update("p1")
                 => pc'["p1"] = "validateMagicLink_create"
        /\ validateMagicLink_create("p1")
                 => (Returned("p1", "OK") /\ successes'[resp'.token] = 1)
      ]_vars

C2_Witness ==
    /\ resp.op = "validateMagicLink"
    /\ resp.code = "TOKEN_ALREADY_USED"
    /\ successes[resp.token] = 1
    /\ Cardinality(RefreshOf(resp.token)) = 1
    /\ \E l \in LinkByHash(Hash(resp.token)) : l.usedAt = now

----------------------------------------------------------------------------
(* C3: a redeem attempted when the clock is at or past the link's          *)
(* expires-at (the instant expires-at itself included) fails with          *)
(* EXPIRED_TOKEN.                                                          *)

C3_ExpiredFromExpiry ==
    [][ \A p \in Procs, t \in Tokens :
          ( /\ validateMagicLink_findUnique(p, t)
            /\ \E l \in LinkByHash(Hash(t)) : now >= l.expiresAt )
              => Returned(p, "EXPIRED_TOKEN")
      ]_vars

----------------------------------------------------------------------------
(* C4: in every reachable state each principal owns at most one magic link *)
(* that is both unredeemed and unexpired.                                  *)

C4_OneActiveLink ==
    \A id \in UserIds :
        Cardinality({l \in magicLinks : l.userId = id /\ Redeemable(l)}) <= 1

----------------------------------------------------------------------------
(* C5: in a sequential run, right after request(P.email) has returned a    *)
(* secret t2, redeeming a secret t1 that an earlier request had issued to  *)
(* P (and that was not redeemed in between) fails with INVALID_TOKEN, and  *)
(* t2 itself is redeemable.                                                *)

JustIssued(t) ==
    resp.op = "generateMagicLink" /\ resp.code = "OK" /\ resp.token = t

----------------------------------------------------------------------------
(* C6: every session belongs to the principal whose magic link produced    *)
(* it, and a successful validate of a refresh secret returns the id, role, *)
(* tenant and team of exactly that principal.                              *)

\* The principal the magic link behind refresh secret r was issued to.
LinkOwner(r) == origin[origin[r].link].userId

C6_SessionOwner ==
    /\ [](\A s \in authSessions :
            \E r \in Tokens :
               /\ origin[r].kind = "refresh"
               /\ s.tokenHash = Hash(r)
               /\ s.userId = LinkOwner(r))
    /\ [][ \A p \in Procs, r \in Tokens :
             (validateSession_findUnique(p, r) /\ Returned(p, "OK"))
                => /\ origin[r].kind = "refresh"
                   /\ resp'.user.id = LinkOwner(r)
                   /\ \E u \in users :
                         /\ u.id = LinkOwner(r)
                         /\ resp'.user = [id |-> u.id, role |-> u.role,
                                          companyId |-> u.companyId,
                                          teamId |-> u.teamId]
         ]_vars

C6_Witness ==
    /\ resp.op = "validateSession"
    /\ resp.code = "OK"
    /\ resp.user.id = LinkOwner(resp.token)
    /\ \E l \in magicLinks : l.userId # resp.user.id

----------------------------------------------------------------------------
(* Claims on the API *)

\* The session a cookie presents, while it is still accepted.
LiveSessions(c) ==
    {s \in authSessions : c # NoToken /\ s.tokenHash = Hash(c) /\ now <= s.expiresAt}

\* The principal behind the cookie, as stored when the request arrives.
Requesters(c) == {u \in users : \E s \in LiveSessions(c) : s.userId = u.id}

Answered(op) == resp.op = op /\ resp.status = 200

\* C7 as stated: validate(refreshSecret) returns the role, tenantId and teamId
\* the owning principal had when the session was created, even when the
\* principal was updated in between.
C7_ContextAsAtCreation ==
    Answered("getCurrentUser") =>
        /\ resp.user.role = origin[resp.token].ctx.role
        /\ resp.user.companyId = origin[resp.token].ctx.companyId
        /\ resp.user.teamId = origin[resp.token].ctx.teamId

\* C7 amended: validate(refreshSecret) returns the id, role, tenantId and
\* teamId of the owning principal's row as it is when the session is validated;
\* the id and the tenantId are those of session-creation time.
C7_ContextAsStored ==
    Answered("getCurrentUser") =>
        \E u \in users :
            /\ u.id = origin[resp.token].userId
            /\ resp.user = [id |-> u.id, role |-> u.role,
                            companyId |-> u.companyId, teamId |-> u.teamId]
            /\ u.id = origin[resp.token].ctx.id
            /\ u.companyId = origin[resp.token].ctx.companyId

\* A session validated after its owner's role was changed.
C7_Witness ==
    /\ Answered("getCurrentUser")
    /\ resp.user.role # origin[resp.token].ctx.role

\* The request of the step is made on a users route with cookie c.
UsersRequest(c) ==
    \E p \in Procs :
        \/ \E q \in ListQueries : listUsers(p, c, q)
        \/ \E id \in UserIds : getUserById(p, c, id)
        \/ \E e \in Emails : getUserByEmail(p, c, e)
        \/ \E d \in CreateBodies : createUser(p, c, d)
        \/ \E id \in UserIds, d \in UpdateBodies : updateUser(p, c, id, d)
        \/ \E id \in UserIds : deleteUser(p, c, id)

\* C8: whatever the parameters of a users operation, no principal of a tenant
\* other than the requester's is returned, created, modified or deleted.
C8_TenantIsolation ==
    [][\A c \in Cookies : \A me \in Requesters(c) :
          UsersRequest(c) =>
              /\ resp'.status \in {200, 201} /\ resp'.op # "deleteUser"
                    => \A u \in resp'.data : u.companyId = me.companyId
              /\ \A u \in (users' \ users) \cup (users \ users') :
                    u.companyId = me.companyId]_vars

\* The request of the step is revoke-all-sessions with cookie c and target id.
RevokeAllRequest(c, id) ==
    /\ resp'.op = "revokeAllUserSessions"
    /\ \E p \in Procs : revokeAllUserSessions(p, c, id)

Denied == resp'.status \in {401, 403}

\* C9 as stated: a revoke-all-sessions request of a MANAGER, a MEMBER or an
\* unauthenticated caller is denied and leaves every Session row unchanged.
C9_DeniedLeavesSessions ==
    [][\A c \in Cookies, id \in UserIds :
          (RevokeAllRequest(c, id) /\ \A me \in Requesters(c) : me.role # ADMIN_RH)
              => Denied /\ authSessions' = authSessions]_vars

\* C9 amended: such a request is denied and leaves every Session row unchanged,
\* except that the expired session the caller presented is deleted.
C9_DeniedLeavesLiveSessions ==
    [][\A c \in Cookies, id \in UserIds :
          (RevokeAllRequest(c, id) /\ \A me \in Requesters(c) : me.role # ADMIN_RH)
              => /\ Denied
                 /\ authSessions' =
                       {s \in authSessions :
                           ~(c # NoToken /\ s.tokenHash = Hash(c)
                                /\ s.expiresAt < now)}]_vars

\* A revoke-all-sessions request refused for its expired session, which is gone.
C9_Witness ==
    /\ resp.op = "revokeAllUserSessions"
    /\ resp.status = 401
    /\ resp.code = "EXPIRED_SESSION"
    /\ \E u \in users : \A s \in authSessions : s.userId # u.id

\* C10: revoke-all-sessions by an admin of one tenant, with the id of a
\* principal of another tenant, deletes no Session row of that principal.
C10_RevokeAllWithinTenant ==
    [][\A c \in Cookies, id \in UserIds : \A me \in Requesters(c) :
          (/\ RevokeAllRequest(c, id)
           /\ me.role = ADMIN_RH
           /\ \E u \in users : u.id = id /\ u.companyId # me.companyId)
              => \A s \in authSessions : s.userId = id => s \in authSessions']_vars

IdOps == {"getUserById", "updateUser", "deleteUser"}
Success == {200, 201}

\* C11: a MANAGER of team T1 that reads, updates or deletes a principal of its
\* tenant whose team is not T1 gets no success response and changes nothing;
\* what a MANAGER lists or finds by e-mail is of team T1 only.
C11_ManagerTeamScope ==
    [][resp'.op \in IdOps \cup {"getUserByEmail", "listUsers"} =>
         \A me \in Requesters(resp'.by) :
            me.role = MANAGER =>
               /\ (resp'.op \in IdOps /\ resp'.status \in Success) =>
                     \A u \in users :
                        (u.id = resp'.target /\ u.companyId = me.companyId)
                            => u.teamId = me.teamId
               /\ (resp'.op \in IdOps /\ resp'.status \notin Success) =>
                     store' = store
               /\ (resp'.op \in {"getUserByEmail", "listUsers"}
                     /\ resp'.status \in Success) =>
                     /\ \A u \in resp'.data : u.teamId = me.teamId
                     /\ store' = store]_vars

\* A MANAGER answered 404 for a principal of its tenant that is in another team.
C11_Witness ==
    /\ resp.op \in {"getUserById", "updateUser"}
    /\ resp.status = 404
    /\ \E me \in Requesters(resp.by), u \in users :
          /\ me.role = MANAGER
          /\ u.id = resp.target
          /\ u.companyId = me.companyId
          /\ u.teamId \in Teams \ {me.teamId}

\* C12: a principal row is deleted only for a requester whose role is ADMIN_RH;
\* a delete by a COLLABORATEUR or a MANAGER, whatever its target, is denied and
\* leaves every principal row in place.
C12_DeleteOnlyByAdmin ==
    [][resp'.op = "deleteUser" =>
         /\ \A me \in Requesters(resp'.by) :
               me.role # ADMIN_RH => (resp'.status = 403 /\ store' = store)
         /\ (resp'.status \in Success \/ users' # users) =>
               \E me \in Requesters(resp'.by) : me.role = ADMIN_RH]_vars

\* A MANAGER refused the delete, with a principal of its own team in the store.
C12_Witness ==
    /\ resp.op = "deleteUser"
    /\ resp.status = 403
    /\ \E me \in Requesters(resp.by), u \in users :
          /\ me.role = MANAGER
          /\ u.id # me.id
          /\ u.companyId = me.companyId
          /\ u.teamId = me.teamId

\* A MANAGER without a team, or an ADMIN_RH with one.
BadAssignment(role, teamId) ==
    \/ role = MANAGER /\ teamId = NoTeam
    \/ role = ADMIN_RH /\ teamId # NoTeam

\* The row an update body asks for: the fields it gives over those stored.
Asked(d, u) ==
    [role |-> IF d.role # Absent THEN d.role ELSE u.role,
     teamId |-> IF d.teamId # Absent THEN d.teamId ELSE u.teamId]

\* C13: every stored MANAGER has a team and no stored ADMIN_RH has one; a
\* create or an update asking for a row that breaks either rule is answered
\* 400 and writes nothing.
C13_RoleTeamRule ==
    /\ [](/\ \A u \in users : ~BadAssignment(u.role, u.teamId)
          /\ \A d \in CreateBodies :
                (d.companyId \in Companies /\ BadAssignment(d.role, d.teamId))
                    => /\ createUser_service(d).resp.status = 400
                       /\ createUser_service(d).users = users
          /\ \A me \in users, u \in users, d \in UpdateBodies :
                ( /\ me.role \in UpdateRoles
                  /\ updateUser_service(u.id, d, Context(me)).resp.status # 404
                  /\ BadAssignment(Asked(d, u).role, Asked(d, u).teamId) )
                    => /\ updateUser_service(u.id, d, Context(me)).resp.status = 400
                       /\ updateUser_service(u.id, d, Context(me)).users = users)
    /\ [][(resp'.op \in {"createUser", "updateUser"} /\ resp'.status = 400)
             => store' = store]_vars

\* An update refused with 400 after an earlier one made a new MANAGER.
C13_Witness ==
    /\ resp.op = "updateUser"
    /\ resp.status = 400
    /\ resp.code \in {"TEAM_ID_REQUIRED", "TEAM_ID_NOT_ALLOWED"}
    /\ \E u \in users \ SeedUsers : u.role = MANAGER /\ u.id = resp.target

----------------------------------------------------------------------------
(* Claims on logout and on the life of a session *)

\* The answer of a protected route to a request carrying cookie c.
MeStatus(c) ==
    Guarded("getCurrentUser", c, Role,
            getCurrentUser_controller(c, ReqUser(c))).resp.status

\* C14: once a logout has completed for refresh secret r, every later
\* validate(r) fails with INVALID_SESSION and every later request to a
\* protected route carrying r is answered 401, for the rest of the run.
C14_RevokedStaysInvalid ==
    /\ [](\A r \in Tokens :
             origin[r].revoked =>
                /\ SessionByHash(Hash(r)) = {}
                /\ MeStatus(r) = 401)
    /\ [][\A p \in Procs, r \in Tokens :
             (origin[r].revoked /\ validateSession_findUnique(p, r))
                 => Returned(p, "INVALID_SESSION")]_vars

\* A validate refused for a secret that a logout had revoked.
C14_Witness ==
    /\ resp.op = "validateSession"
    /\ resp.code = "INVALID_SESSION"
    /\ origin[resp.token].revoked

\* C15: a logout whose secret has no session, and a revoke-all for a principal
\* that has none, succeed and leave the store unchanged; after either call the
\* rows it names are gone, so that repeating it changes nothing more.
C15_RevokeIdempotent ==
    [][/\ resp'.op = "logout" =>
            /\ resp'.status = 200
            /\ (\A s \in authSessions :
                   resp'.by = NoToken \/ s.tokenHash # Hash(resp'.by))
                  => store' = store
            /\ \A s \in authSessions' :
                   resp'.by = NoToken \/ s.tokenHash # Hash(resp'.by)
            /\ \A p \in Procs :
                   (resp.op = "logout" /\ logout(p, resp.by)) => store' = store
       /\ (resp'.op = "revokeAllUserSessions" /\ ~Denied) =>
            /\ resp'.status = 200
            /\ (\A s \in authSessions : s.userId # resp'.target) => store' = store
            /\ \A s \in authSessions' : s.userId # resp'.target]_vars

\* A revoke-all that succeeded for a principal that never had a session.
C15_Witness ==
    /\ resp.op = "revokeAllUserSessions"
    /\ resp.status = 200
    /\ \E u \in users : u.id = resp.target /\ u.id \notin SeedIds
    /\ \A u \in SeedUsers : SeedSession(u) \in authSessions

\* C16: in a sequential run validate(r) returns no context for a session whose
\* expires-at is before the clock: it deletes the row and fails with
\* EXPIRED_SESSION, and a validate(r) that follows fails with INVALID_SESSION.
C16_ExpiredSessionDeleted ==
    [][/\ \A r \in Tokens :
            ( /\ validateSession_findUnique("p1", r)
              /\ \E s \in authSessions : s.tokenHash = Hash(r) /\ s.expiresAt < now )
                => pc'["p1"] = "validateSession_delete"
       /\ validateSession_delete("p1") =>
            /\ Returned("p1", "EXPIRED_SESSION")
            /\ \A s \in authSessions' : s.tokenHash # Hash(resp'.token)
            /\ authSessions' \subseteq authSessions
            /\ Cardinality(authSessions') = Cardinality(authSessions) - 1
            /\ UNCHANGED <<users, magicLinks>>
       /\ \A r \in Tokens :
            ( /\ resp.op = "validateSession"
              /\ resp.code = "EXPIRED_SESSION"
              /\ resp.token = r
              /\ validateSession_findUnique("p1", r) )
                => Returned("p1", "INVALID_SESSION")]_vars

\* validate has just failed with EXPIRED_SESSION and the row is gone.
C16_Witness ==
    /\ resp.op = "validateSession"
    /\ resp.code = "EXPIRED_SESSION"
    /\ origin[resp.token].kind = "refresh"
    /\ \A s \in authSessions : s.tokenHash # Hash(resp.token)


----------------------------------------------------------------------------
\* C17: a redeem that fails with a 500-class error at any of its steps
\* (the update, the session insert, the signing of the access token) leaves
\* the store as it was before the call: the magic link is still unredeemed
\* and no session row has been added.
InfraCodes == {"MAGIC_LINK_VALIDATION_FAILED", "ACCESS_TOKEN_GENERATION_FAILED"}

C17_FailedRedeemLeavesState ==
    [][\A p \in Procs :
          ( /\ pc[p] \in {"validateMagicLink_update", "validateMagicLink_create"}
            /\ pc'[p] = "idle"
            /\ resp'.op = "validateMagicLink"
            /\ resp'.code \in InfraCodes )
              => /\ \A l \in magicLinks' :
                        l.id = loc[p].link.id => l.usedAt = NoTime
                 /\ authSessions' = authSessions]_vars


----------------------------------------------------------------------------
\* C18: after a successful POST /api/auth/verify the session_token cookie of
\* the response holds the plaintext refresh secret of the session just
\* created: a request carrying that cookie passes authenticateToken and is
\* attributed to the redeeming principal.
C18_CookieHoldsRefreshSecret ==
    (resp.op = "validateMagicLink" /\ resp.code = "OK")
        => /\ resp.cookie = resp.refreshToken
           /\ Authenticate(resp.cookie) = "OK"
           /\ ReqUser(resp.cookie).id = resp.user.id


----------------------------------------------------------------------------
\* C19: revoking a session (logout, or revoking all sessions of its user)
\* does not invalidate the access token issued with it: verifying that token
\* after the revocation succeeds with the payload it was issued with as long
\* as fewer than 15 minutes have passed since its issue, and fails from then on.
C19_RevocationKeepsAccessToken ==
    [][\A r \in Tokens :
          (verifyAccessToken("p1", r) /\ origin[r].revoked)
              => IF now < origin[r].access.iat + AccessTokenMinutes
                 THEN /\ resp'.code = "OK"
                      /\ resp'.decoded = origin[r].access
                      /\ resp'.decoded.userId = origin[r].ctx.id
                      /\ resp'.decoded.role = origin[r].ctx.role
                 ELSE resp'.code = "ACCESS_TOKEN_EXPIRED"]_vars

C19_Witness ==
    /\ resp.op = "verifyAccessToken" /\ resp.code = "OK"
    /\ origin[resp.token].revoked
    /\ \A s \in authSessions : s.tokenHash # Hash(resp.token)
    /\ now = origin[resp.token].access.iat + AccessTokenMinutes - 1


----------------------------------------------------------------------------
\* C20: a COLLABORATEUR that asks GET /api/users/:userId for an id other than
\* its own is denied, never answered with a success; the only id for which a
\* COLLABORATEUR gets a success response is its own.
C20_MemberSelfOnly ==
    [][(resp'.op = "getUserById" /\ "target" \in DOMAIN resp') =>
         \A me \in Requesters(resp'.by) :
            (me.role = COLLABORATEUR /\ resp'.target # me.id)
                => resp'.status \notin Success]_vars


----------------------------------------------------------------------------
\* C21: POST /api/users succeeds only for a requester whose role is ADMIN_RH;
\* a MANAGER or a COLLABORATEUR is answered 403 and no principal row is created.
C21_CreateOnlyByAdmin ==
    [][resp'.op = "createUser" =>
         /\ \A me \in Requesters(resp'.by) :
               me.role # ADMIN_RH => (resp'.status = 403 /\ store' = store)
         /\ (resp'.status \in Success \/ users' # users) =>
               \E me \in Requesters(resp'.by) : me.role = ADMIN_RH]_vars

\* A MANAGER or a COLLABORATEUR was refused the creation.
C21_Witness ==
    /\ resp.op = "createUser"
    /\ resp.status = 403
    /\ \E me \in Requesters(resp.by) : me.role \in {MANAGER, COLLABORATEUR}
    /\ \A u \in users : u.id \in SeedIds


----------------------------------------------------------------------------
\* The routes of /api/users and GET /api/auth/me.
ProtectedOps == {"getCurrentUser", "listUsers", "createUser", "getUserByEmail",
                 "getUserById", "updateUser", "deleteUser"}

\* No cookie, or a cookie whose session is absent or past its expiry.
Unauthenticated(c) ==
    \/ c = NoToken
    \/ \A s \in authSessions : s.tokenHash = Hash(c) => s.expiresAt < now

\* C22: a request to a route of /api/users or to /api/auth/me that carries no
\* session cookie, or a cookie whose session is absent or expired, is answered
\* 401 and its handler is not run: apart from the expired session row, which
\* the validation deletes, the store is unchanged and the response carries
\* nothing of a handler.  Any other answer means the cookie's session was
\* validated, and what /me answers is the context of that session's owner.
C22_NoSessionNoHandler ==
    [][resp'.op \in ProtectedOps =>
         /\ Unauthenticated(resp'.by) =>
               /\ resp'.status = 401
               /\ resp'.code \in {"NO_TOKEN", "INVALID_SESSION", "EXPIRED_SESSION"}
               /\ DOMAIN resp' = {"op", "status", "code", "by"}
               /\ UNCHANGED <<users, magicLinks, nextUserId>>
               /\ authSessions' =
                    {s \in authSessions : s.tokenHash # Hash(resp'.by)}
         /\ resp'.status # 401 => Requesters(resp'.by) # {}
         /\ (resp'.op = "getCurrentUser" /\ resp'.status = 200) =>
               \E me \in Requesters(resp'.by) : resp'.user.id = me.id]_vars

\* A request to a route of /api/users refused because its session had expired.
C22_Witness ==
    /\ resp.op \in ProtectedOps \ {"getCurrentUser"}
    /\ resp.status = 401
    /\ resp.code = "EXPIRED_SESSION"
    /\ \A s \in authSessions : s.tokenHash # Hash(resp.by)


----------------------------------------------------------------------------
\* C23: deleting a principal removes every magic link and session it owns:
\* in every reachable state each magic link and each session references an
\* existing principal, and once a principal is deleted every refresh secret
\* that was issued to it fails validation with INVALID_SESSION.
C23_CascadeOnDelete ==
    /\ [](/\ \A l \in magicLinks : UserById(l.userId) # {}
          /\ \A s \in authSessions : UserById(s.userId) # {})
    /\ [][\A p \in Procs :
            /\ \A u \in LifecycleUsers :
                 deleteUser_delete(p, u.id) =>
                    /\ \A l \in magicLinks' : l.userId # u.id
                    /\ \A s \in authSessions' : s.userId # u.id
            /\ \A r \in Tokens :
                 ( /\ validateSession_findUnique(p, r)
                   /\ origin[r].kind = "refresh"
                   /\ UserById(origin[r].userId) = {} )
                     => Returned(p, "INVALID_SESSION")]_vars

\* The secret of a session that was never revoked, refused after its owner
\* was deleted.
C23_Witness ==
    /\ resp.op = "validateSession" /\ resp.code = "INVALID_SESSION"
    /\ origin[resp.token].kind = "refresh"
    /\ ~origin[resp.token].revoked
    /\ UserById(origin[resp.token].userId) = {}


----------------------------------------------------------------------------
\* The principal with id x exists, outside what requester me may see: in
\* another tenant or, for a MANAGER, in another team.
OutOfScope(me, x) ==
    \E u \in users :
        /\ u.id = x
        /\ \/ u.companyId # me.companyId
           \/ me.role = MANAGER /\ u.teamId # me.teamId

\* A response without the request it is filed under.
Body(r) == [f \in DOMAIN r \ {"by", "target"} |-> r[f]]

\* What the handlers answer requester me about an id no principal has.
AnswerForMissing(op, me) ==
    IF op = "getUserById"
    THEN {Body(getUserById_service(NoUserId, Context(me)).resp)}
    ELSE IF op = "deleteUser"
    THEN {Body(deleteUser_service(NoUserId, Context(me)).resp)}
    ELSE {Body(updateUser_service(NoUserId, d, Context(me)).resp) :
             d \in UpdateBodies}

\* C24: the answer to a get, update or delete of an id X that exists in
\* another tenant (or in another team, for a MANAGER) is the very answer the
\* same requester gets for an id that does not exist, and the store is left
\* as it was.
C24_NonLeakingDenial ==
    [][(resp'.op \in IdOps /\ "target" \in DOMAIN resp') =>
         \A me \in Requesters(resp'.by) :
            OutOfScope(me, resp'.target) =>
               /\ AnswerForMissing(resp'.op, me) = {Body(resp')}
               /\ store' = store]_vars

\* An ADMIN_RH answered about a principal of another tenant.
C24_Witness ==
    /\ resp.op \in IdOps
    /\ "target" \in DOMAIN resp
    /\ \E me \in Requesters(resp.by), u \in users :
          /\ me.role = ADMIN_RH
          /\ u.id = resp.target
          /\ u.companyId # me.companyId


----------------------------------------------------------------------------
\* The token of body b is something else than 64 lowercase hexadecimal
\* characters.
Malformed(b) ==
    \/ b.kind # "string"
    \/ b.len # TokenLength
    \/ b.chars # "lowerhex"

\* C25: a verify request whose token is not exactly 64 lowercase hexadecimal
\* characters (wrong length, other characters, empty, null, missing) is
\* answered 400 before any store access: the call ends in that step, no magic
\* link is read or changed and no session is created.
C25_MalformedTokenRejected ==
    [][\A b \in VerifyBodies :
          (Malformed(b) /\ verifyMagicLink("p1", b))
              => /\ resp'.op = "verifyMagicLink"
                 /\ resp'.status = 400
                 /\ pc'["p1"] = "idle"
                 /\ store' = store
                 /\ origin' = origin]_vars

\* A malformed token refused while a redeemable link is in the store.
C25_Witness ==
    /\ resp.op = "verifyMagicLink"
    /\ resp.status = 400
    /\ \E l \in magicLinks : l.usedAt = NoTime /\ now < l.expiresAt


----------------------------------------------------------------------------
\* C26: a link request for an e-mail that matches no principal fails with
\* USER_NOT_FOUND and leaves the store unchanged: no magic link is deleted or
\* created, and no secret is drawn.
C26_UnknownEmailRejected ==
    [][\A e \in Emails :
          ( /\ \A u \in users : u.email # e
            /\ generateMagicLink_findUser("p1", e) )
              => /\ Returned("p1", "USER_NOT_FOUND")
                 /\ store' = store
                 /\ nextToken' = nextToken
                 /\ origin' = origin]_vars

\* The request was refused with an unredeemed link of a principal in the store.
C26_Witness ==
    /\ resp.op = "generateMagicLink"
    /\ resp.code = "USER_NOT_FOUND"
    /\ \E l \in magicLinks : l.usedAt = NoTime


----------------------------------------------------------------------------
----------------------------------------------------------------------------
\* C28: a cleanup sweep run at instant now deletes exactly the magic links
\* whose expiry is before now or that are redeemed, and exactly the sessions
\* whose expiry is before now; it returns the two numbers of rows it removed
\* and leaves every other link, every other session and every principal as
\* they were.
C28_SweepExact ==
    [][cleanupExpiredTokens("p1") =>
         /\ magicLinks' =
              {l \in magicLinks : ~(l.expiresAt < now) /\ l.usedAt = NoTime}
         /\ authSessions' = {s \in authSessions : ~(s.expiresAt < now)}
         /\ resp'.deletedMagicLinks =
              Cardinality(magicLinks) - Cardinality(magicLinks')
         /\ resp'.deletedSessions =
              Cardinality(authSessions) - Cardinality(authSessions')
         /\ users' = users]_vars

\* A sweep that removed a link and a session and left a link behind.
C28_Witness ==
    /\ resp.op = "cleanupExpiredTokens"
    /\ resp.deletedMagicLinks >= 1
    /\ resp.deletedSessions >= 1
    /\ magicLinks # {}


----------------------------------------------------------------------------
\* Link or session t is in the store, due for the sweep.
LinkDue(t) ==
    \E l \in magicLinks : l.id = t /\ (l.usedAt # NoTime \/ l.expiresAt < now)
SessionDue(t) == \E s \in authSessions : s.id = t /\ s.expiresAt < now

\* C29: with a sweep that runs again and again, every magic link that has
\* become redeemed or expired, and every session that has become expired, is
\* eventually gone from the store.
C29_EventuallySwept ==
    \A t \in Tokens :
        /\ LinkDue(t) ~> (\A l \in magicLinks : l.id # t)
        /\ SessionDue(t) ~> (\A s \in authSessions : s.id # t)

\* The sweep has emptied a store that held a link and a session due for it.
C29_Witness ==
    /\ resp.op = "cleanupExpiredTokens"
    /\ resp.deletedMagicLinks + resp.deletedSessions >= 2
    /\ magicLinks = {}
    /\ authSessions = {}


----------------------------------------------------------------------------
\* C30: the digest of an issued plaintext secret is the digest persisted at
\* its issuance.  A lookup by the secret finds the row issued with it for as
\* long as that row is stored, so it never fails with INVALID_TOKEN or
\* INVALID_SESSION then; the redeem of a link just issued passes the lookup
\* and both tests, and the validation of a refresh secret just issued returns
\* the context of the principal that redeemed.
C30_DigestRoundTrip ==
    [][/\ (generateMagicLink_create("p1") /\ resp'.code = "OK") =>
             \E l \in magicLinks' :
                /\ l.tokenHash = Hash(resp'.token)
                /\ l.expiresAt = resp'.expiresAt
                /\ l.userId = resp'.userId
       /\ (validateMagicLink_create("p1") /\ resp'.code = "OK") =>
             \E s \in authSessions' :
                /\ s.tokenHash = Hash(resp'.refreshToken)
                /\ s.expiresAt = resp'.refreshExpiresAt
                /\ s.userId = resp'.user.id
       /\ \A t \in Tokens :
             validateMagicLink_findUnique("p1", t) =>
                /\ (\E l \in magicLinks : l.id = t)
                      => ~Returned("p1", "INVALID_TOKEN")
                /\ (resp.op = "generateMagicLink" /\ resp.code = "OK"
                      /\ resp.token = t)
                      => pc'["p1"] = "validateMagicLink_update"
       /\ \A r \in Tokens :
             validateSession_findUnique("p1", r) =>
                /\ (\E s \in authSessions : s.id = r)
                      => ~Returned("p1", "INVALID_SESSION")
                /\ (resp.op = "validateMagicLink" /\ resp.code = "OK"
                      /\ resp.refreshToken = r)
                      => /\ Returned("p1", "OK")
                         /\ resp'.user.id = resp.user.id]_vars

\* The refresh secret of a redeem, validated later on.
C30_Witness ==
    /\ resp.op = "validateSession" /\ resp.code = "OK"
    /\ origin[resp.token].kind = "refresh"
    /\ now > origin[resp.token].access.iat


----------------------------------------------------------------------------
----------------------------------------------------------------------------
\* C32: a successful refreshAccessToken writes nothing: the session row of
\* the presented secret is still stored, unexpired, with the same digest and
\* the same expires-at, and no session row is added or removed, so the same
\* secret passes again.  No operation at all changes the digest or the
\* expires-at of a stored session.
C32_RefreshKeepsSession ==
    [][/\ \A r \in Tokens :
             (refreshAccessToken_findUnique("p1", r) /\ Returned("p1", "OK")) =>
                /\ UNCHANGED store
                /\ \E s \in authSessions' :
                      /\ s.tokenHash = Hash(r)
                      /\ s.expiresAt >= now'
       /\ \A s \in authSessions, s2 \in authSessions' :
             s.id = s2.id => s2 = s]_vars

\* A refresh that succeeded some time after the redeem that made the session.
C32_Witness ==
    /\ resp.op = "refreshAccessToken" /\ resp.code = "OK"
    /\ resp.accessToken.iat > origin[resp.token].access.iat
    /\ \E s \in authSessions : s.tokenHash = Hash(resp.token)


----------------------------------------------------------------------------
\* C33: every request through optionalAuth ends with next called exactly
\* once and no response sent.  req.user is the context of the session's
\* principal when the presented session is stored and unexpired; without a
\* cookie, and when the validation fails (unknown session, expired session,
\* failing store), req.user stays unset.
C33_OptionalAuthProceeds ==
    [][/\ \A c \in Tokens \cup {NoToken} :
             /\ (optionalAuth_cookie("p1", c) /\ pc'["p1"] = "idle") =>
                   /\ resp'.nextCalls = 1
                   /\ ~resp'.sent
                   /\ resp'.user = IF Authenticate(c) = "OK" THEN ReqUser(c)
                                   ELSE NoReqUser
             /\ optionalAuth_storeFails("p1", c) =>
                   /\ resp'.nextCalls = 1
                   /\ ~resp'.sent
                   /\ resp'.user = NoReqUser
       /\ optionalAuth_delete("p1") =>
             /\ resp'.nextCalls = 1
             /\ ~resp'.sent
             /\ resp'.user = NoReqUser]_vars

\* A request that came with an expired session and went on without a user.
C33_Witness ==
    /\ resp.op = "optionalAuth"
    /\ resp.swallowed = "EXPIRED_SESSION"
    /\ resp.nextCalls = 1
    /\ resp.user = NoReqUser


----------------------------------------------------------------------------
\* C34: a successful request for principal P removes P's unredeemed magic
\* links and no other row, then adds exactly one magic link, owned by P,
\* unredeemed, expiring 24 hours after the issuance; the magic links of other
\* principals, the redeemed links of P, the sessions and the principals are
\* left as they were.
C34_RequestFrame ==
    [][/\ \A e \in Emails :
             generateMagicLink_findUser("p1", e) =>
                /\ UNCHANGED store
                /\ pc'["p1"] = "generateMagicLink_deleteMany" =>
                      /\ \E u \in users : u.email = e /\ u.id = loc'["p1"].userId
                      /\ loc'["p1"].expiresAt
                            = now + MagicLinkHours * MinutesPerHour
       /\ generateMagicLink_deleteMany("p1") =>
             /\ magicLinks' = {l \in magicLinks :
                                  \/ l.userId # loc["p1"].userId
                                  \/ l.usedAt # NoTime}
             /\ UNCHANGED <<users, authSessions, loc>>
       /\ (generateMagicLink_create("p1") /\ Returned("p1", "OK")) =>
             /\ magicLinks \subseteq magicLinks'
             /\ Cardinality(magicLinks' \ magicLinks) = 1
             /\ \A l \in magicLinks' \ magicLinks :
                   /\ l.userId = loc["p1"].userId
                   /\ l.usedAt = NoTime
                   /\ l.expiresAt = loc["p1"].expiresAt
                   /\ l.expiresAt = now + MagicLinkHours * MinutesPerHour
             /\ UNCHANGED <<users, authSessions>>]_vars

\* A request that replaced the principal's earlier link and kept the link of
\* another principal.
C34_Witness ==
    /\ resp.op = "generateMagicLink" /\ resp.code = "OK"
    /\ \E l \in magicLinks : l.id = resp.token /\ l.userId = resp.userId
    /\ \E l \in magicLinks : l.userId # resp.userId
    /\ \E t \in Tokens :
          /\ origin[t].kind = "link" /\ origin[t].userId = resp.userId
          /\ \A l \in magicLinks : l.id # t


----------------------------------------------------------------------------
\* The sessions created so far, and the redeems that have succeeded so far.
SessionsCreated == Cardinality({r \in Tokens : origin[r].kind = "refresh"})
RECURSIVE SuccessesUpTo(_)
SuccessesUpTo(n) == IF n = 0 THEN 0 ELSE successes[n] + SuccessesUpTo(n - 1)

----------------------------------------------------------------------------
\* C36: a validate or refresh call that found the session expired ends with
\* EXPIRED_SESSION, EXPIRED_REFRESH_TOKEN, INVALID_SESSION or
\* INVALID_REFRESH_TOKEN, also when another call deleted the row in between;
\* it never ends with a 500-class code.
C36_NoInfraErrorOnRace ==
    [][\A p \in Procs :
          (validateSession_delete(p) \/ refreshAccessToken_delete(p)) =>
             resp'.code \in {"EXPIRED_SESSION", "INVALID_SESSION",
                             "EXPIRED_REFRESH_TOKEN", "INVALID_REFRESH_TOKEN"}]_vars


----------------------------------------------------------------------------
\* C37: a redeem that passed the tests on its link and then reaches its
\* mark-redeemed write, whatever a request for the same principal or a sweep
\* did to the link in between, either goes on to create its session or fails
\* with INVALID_TOKEN, EXPIRED_TOKEN or TOKEN_ALREADY_USED, never with a
\* 500-class code; and it goes on only if the link row is still stored.
C37_RedeemSurvivesDeletion ==
    [][\A p \in Procs :
          validateMagicLink_update(p) =>
             /\ pc'[p] = "idle" =>
                   resp'.code \in {"INVALID_TOKEN", "EXPIRED_TOKEN",
                                   "TOKEN_ALREADY_USED"}
             /\ pc'[p] = "validateMagicLink_create" =>
                   \E l \in magicLinks : l.id = loc[p].link.id]_vars


----------------------------------------------------------------------------
\* C38: an update answered to a MANAGER gives the role ADMIN_RH to no
\* principal that did not hold it before, and changes the team of no
\* principal to a team other than the manager's.
C38_NoEscalationByManager ==
    [][(resp'.op = "updateUser" /\ resp'.status = 200) =>
          \A me \in Requesters(resp'.by) :
             me.role = MANAGER =>
                \A u \in users, v \in users' :
                   u.id = v.id =>
                      /\ v.role = ADMIN_RH => u.role = ADMIN_RH
                      /\ v.teamId # u.teamId => v.teamId = me.teamId]_vars


----------------------------------------------------------------------------
\* C39: at most one request of performRefresh is pending at any time, and it
\* is the one refreshPromise holds.  A refreshAccessToken call made while a
\* refresh is pending starts no request and is handed that pending promise,
\* whose result it receives; a request is started only when none is pending.
C39_SingleRefreshInFlight ==
    /\ [](/\ Cardinality(Pending) <= 1
          /\ \A n \in Pending : refreshPromise = n)
    /\ [][\A f \in Fetchers :
             /\ fetchWithAuth_firstSettles(f, "ACCESS_TOKEN_EXPIRED") =>
                   IF Pending # {}
                   THEN /\ promises' = promises
                        /\ fetchers'[f].promise \in Pending
                   ELSE IF refreshPromise # NoPromise
                   THEN /\ promises' = promises
                        /\ fetchers'[f].promise = refreshPromise
                   ELSE /\ Cardinality(Pending') = 1
                        /\ fetchers'[f].promise \in Pending'
             /\ (refreshAccessToken_shared(f) \/ refreshAccessToken_finally(f)) =>
                   /\ fetchers'[f].at = "retry"
                         <=> promises[fetchers[f].promise] = "fulfilled"
                   /\ fetchers'[f].at = "retry"
                         => fetchers'[f].promise = fetchers[f].promise]_vars

\* Two callers hold the promise of the one pending refresh.
C39_Witness ==
    /\ Cardinality(Pending) = 1
    /\ \E f, g \in Fetchers :
          /\ fetchers[f].at = "starter"
          /\ fetchers[g].at = "shared"
          /\ fetchers[f].promise = fetchers[g].promise
          /\ fetchers[f].promise \in Pending
          /\ fetchers[f].promise > 1


----------------------------------------------------------------------------
\* C40: from the completion of a logout until a validateMagicLink or a
\* refreshAuth started after it succeeds, the store is unauthenticated:
\* isAuthenticated is false, user is null and accessToken is null.
C40_LogoutSticks ==
    loggedOut =>
        /\ authState.isAuthenticated = FALSE
        /\ authState.user = NoUser
        /\ authState.accessToken = NoAccessToken

====
